---- MODULE Spec2Model ----
(***************************************************************************)
(* Model of the smallorange-gateway request pipeline (class Gateway).      *)
(*                                                                         *)
(* Strings that the code splits, joins or concatenates (URL paths, route   *)
(* keys, cache keys) are sequences of characters; a character is a TLA+    *)
(* string that the code never looks inside ("/", "*", "param2", ...).      *)
(* Values the code only compares (methods, messages, roles) are TLA+       *)
(* strings.                                                                *)
(***************************************************************************)
EXTENDS Integers, Sequences, FiniteSets, TLC

VARIABLES
    lambdas,      \* this.lambdas: route key -> LambdaSpec
    cacheDriver,  \* this.cacheDriver is not null (redisUrl was configured)
    cachePrefix,  \* this.cachePrefix
    crashed,      \* an exception escaped a callback: the process is gone
    flows,        \* per request: position, request, args, response, calls made
    query,        \* the router exploration's question and answer
    store         \* the CacheStore's entries: {namespace, key} -> value

\* ------------------------------------------------------------------ bounds

\* The longest URI and route pattern explored, in segments.
MaxSegs == 3

\* The largest route table explored besides the fixtures of the test suite.
MaxRoutes == 2

\* The number of requests the gateway works on at a time.
MaxReqs == 1

\* ----------------------------------------------------------------- strings

Min(a, b) == IF a < b THEN a ELSE b

\* The index of the first sep in s at or after position i, or Len(s) + 1.
RECURSIVE NextSep(_, _, _)
NextSep(s, sep, i) ==
    IF i > Len(s) \/ s[i] = sep THEN i ELSE NextSep(s, sep, i + 1)

\* String.prototype.split(sep): the pieces between the separators, empty
\* pieces included ('/a/b'.split('/') is ['', 'a', 'b']).
RECURSIVE SplitFrom(_, _, _)
SplitFrom(s, sep, i) ==
    LET j == NextSep(s, sep, i)
    IN  IF j > Len(s)
        THEN << SubSeq(s, i, Len(s)) >>
        ELSE << SubSeq(s, i, j - 1) >> \o SplitFrom(s, sep, j + 1)

Split(s, sep) == SplitFrom(s, sep, 1)

\* Array.prototype.join(sep).
RECURSIVE Join(_, _)
Join(parts, sep) ==
    IF Len(parts) = 0 THEN << >>
    ELSE IF Len(parts) = 1 THEN parts[1]
    ELSE parts[1] \o << sep >> \o Join(Tail(parts), sep)

\* ------------------------------------------------------------------ values

\* JavaScript values, tagged by type: [str |-> s] a string, [num |-> n] a
\* number, [bool |-> b], [nul |-> TRUE] null, [undef |-> TRUE] undefined,
\* [obj |-> f] an object with fields DOMAIN f, [arr |-> s] an array,
\* [buf |-> s] a Buffer holding the bytes decoded from the base64 text s.
Str(s)  == [str |-> s]
Num(n)  == [num |-> n]
Bool(b) == [bool |-> b]
Nul     == [nul |-> TRUE]
Undef   == [undef |-> TRUE]
Obj(f)  == [obj |-> f]
Arr(s)  == [arr |-> s]
Buf(s)  == [buf |-> s]

IsStr(v)   == DOMAIN v = {"str"}
IsNum(v)   == DOMAIN v = {"num"}
IsBool(v)  == DOMAIN v = {"bool"}
IsNul(v)   == DOMAIN v = {"nul"}
IsUndef(v) == DOMAIN v = {"undef"}
IsObj(v)   == DOMAIN v = {"obj"}
IsArr(v)   == DOMAIN v = {"arr"}
IsBuf(v)   == DOMAIN v = {"buf"}

\* A one-character string literal of the code ('Forbidden', 'unset', ...).
L(c) == << c >>

\* An object without fields: {}.
EmptyMap == [k \in {} |-> Nul]

\* JavaScript truthiness.
Truthy(v) ==
    IF IsStr(v) THEN v.str # << >>
    ELSE IF IsNum(v) THEN v.num # 0
    ELSE IF IsBool(v) THEN v.bool
    ELSE ~(IsNul(v) \/ IsUndef(v))

\* a || b
Or(a, b) == IF Truthy(a) THEN a ELSE b

\* typeof v === 'object' (null, objects, arrays and Buffers).
TypeofObject(v) == IsNul(v) \/ IsObj(v) \/ IsArr(v) \/ IsBuf(v)

\* v[name] on any value but null and undefined: primitives have no such field.
Field(v, name) ==
    IF IsObj(v) /\ name \in DOMAIN v.obj THEN v.obj[name] ELSE Undef

\* A destructuring default: the default replaces undefined only.
Default(v, d) == IF IsUndef(v) THEN d ELSE v

\* Object.assign({}, base, over): over wins on keys present in both.
Assign(base, over) ==
    [k \in DOMAIN base \cup DOMAIN over |->
        IF k \in DOMAIN over THEN over[k] ELSE base[k]]

DigitChars == << "0", "1", "2", "3", "4", "5", "6", "7", "8", "9" >>

\* The decimal numeral of a natural number.
RECURSIVE Numeral(_)
Numeral(n) ==
    IF n < 10 THEN << DigitChars[n + 1] >>
    ELSE Numeral(n \div 10) \o << DigitChars[(n % 10) + 1] >>

\* String(v), as new Error(v) computes the message.
RECURSIVE ToMessage(_)
ToMessage(v) ==
    IF IsStr(v) THEN v.str
    ELSE IF IsNum(v) THEN (IF v.num < 0 THEN << "-" >> \o Numeral(-v.num) ELSE Numeral(v.num))
    ELSE IF IsBool(v) THEN (IF v.bool THEN L("true") ELSE L("false"))
    ELSE IF IsNul(v) THEN L("null")
    ELSE IF IsUndef(v) THEN L("undefined")
    ELSE IF IsArr(v) THEN Join([i \in 1 .. Len(v.arr) |-> ToMessage(v.arr[i])], ",")
    ELSE L("[object Object]")

\* ----------------------------------------------------------------- parsing

IsDigit(c) == \E i \in 1 .. 10 : DigitChars[i] = c

DigitValue(c) == (CHOOSE i \in 1 .. 10 : DigitChars[i] = c) - 1

\* The length of the run of digits of s that starts at position i.
RECURSIVE DigitRun(_, _)
DigitRun(s, i) ==
    IF i <= Len(s) /\ IsDigit(s[i]) THEN 1 + DigitRun(s, i + 1) ELSE 0

RECURSIVE DigitsValue(_, _, _)
DigitsValue(s, i, n) ==
    IF n = 0 THEN 0
    ELSE DigitsValue(s, i, n - 1) * 10 + DigitValue(s[i + n - 1])

\* parseFloat on a string: the number its longest numeric prefix denotes
\* (an optional sign and digits), [nan |-> TRUE] when there is none.  What
\* follows the prefix is ignored, as parseFloat ignores it.
NaN == [nan |-> TRUE]

parseFloat(s) ==
    LET signed == Len(s) > 0 /\ s[1] \in {"-", "+"}
        from   == IF signed THEN 2 ELSE 1
        n      == DigitRun(s, from)
    IN  IF n = 0 THEN NaN
        ELSE IF signed /\ s[1] = "-" THEN Num(-DigitsValue(s, from, n))
        ELSE Num(DigitsValue(s, from, n))

HexChars == {"0", "1", "2", "3", "4", "5", "6", "7", "8", "9",
             "a", "b", "c", "d", "e", "f", "A", "B", "C", "D", "E", "F"}

\* The number of bytes of the UTF-8 sequence a byte %hi.. starts: 1 for
\* ASCII, 2..4 for a lead byte, 0 for a byte that cannot start a sequence.
Utf8Length(hi) ==
    IF hi \in {"0", "1", "2", "3", "4", "5", "6", "7"} THEN 1
    ELSE IF hi \in {"c", "C", "d", "D"} THEN 2
    ELSE IF hi \in {"e", "E"} THEN 3
    ELSE IF hi \in {"f", "F"} THEN 4
    ELSE 0

IsEscape(s, i) ==
    /\ i + 2 <= Len(s)
    /\ s[i] = "%"
    /\ s[i + 1] \in HexChars
    /\ s[i + 2] \in HexChars

IsContinuation(s, i) == IsEscape(s, i) /\ s[i + 1] \in {"8", "9", "a", "A", "b", "B"}

\* The character an ASCII escape stands for; those the model's alphabet has
\* are named, every other one is the character "?".
Unescaped(hi, lo) ==
    IF << hi, lo >> = << "2", "5" >> THEN "%"
    ELSE IF << hi, lo >> \in {<< "2", "f" >>, << "2", "F" >>} THEN "/"
    ELSE IF << hi, lo >> = << "2", "6" >> THEN "&"
    ELSE IF << hi, lo >> \in {<< "3", "d" >>, << "3", "D" >>} THEN "="
    ELSE IF << hi, lo >> \in {<< "2", "a" >>, << "2", "A" >>} THEN "*"
    ELSE IF hi = "3" /\ IsDigit(lo) THEN lo
    ELSE "?"

\* decodeURIComponent from position i: [threw |-> TRUE] (URIError) on a '%'
\* that does not start a well-formed escape sequence.
RECURSIVE DecodeFrom(_, _)
DecodeFrom(s, i) ==
    IF i > Len(s) THEN [threw |-> FALSE, str |-> << >>]
    ELSE IF s[i] # "%"
    THEN LET rest == DecodeFrom(s, i + 1)
         IN  IF rest.threw THEN rest
             ELSE [threw |-> FALSE, str |-> << s[i] >> \o rest.str]
    ELSE IF ~IsEscape(s, i) THEN [threw |-> TRUE]
    ELSE LET n == Utf8Length(s[i + 1])
         IN  IF n = 0 \/ \E k \in 1 .. n - 1 : ~IsContinuation(s, i + 3 * k)
             THEN [threw |-> TRUE]
             ELSE LET rest == DecodeFrom(s, i + 3 * n)
                      char == IF n = 1 THEN Unescaped(s[i + 1], s[i + 2]) ELSE "?"
                  IN  IF rest.threw THEN rest
                      ELSE [threw |-> FALSE, str |-> << char >> \o rest.str]

decodeURIComponent(s) == DecodeFrom(s, 1)

\* parseValue(value): [threw |-> FALSE, value |-> v], or [threw |-> TRUE]
\* when decodeURIComponent raises URIError.
parseValue(value) ==
    IF value = Str(L("true")) \/ value = Bool(TRUE)
    THEN [threw |-> FALSE, value |-> Bool(TRUE)]
    ELSE IF value = Str(L("false")) \/ value = Bool(FALSE)
    THEN [threw |-> FALSE, value |-> Bool(FALSE)]
    ELSE IF value \in {Str(L("null")), Str(L("undefined")), Nul, Undef}
    THEN [threw |-> FALSE, value |-> Nul]
    ELSE LET numberTentative == IF IsNum(value) THEN value
                                ELSE IF IsStr(value) THEN parseFloat(value.str)
                                ELSE NaN
         IN  IF numberTentative # NaN
             THEN [threw |-> FALSE, value |-> numberTentative]
             ELSE LET decoded == decodeURIComponent(value.str)
                  IN  IF decoded.threw THEN [threw |-> TRUE]
                      ELSE [threw |-> FALSE, value |-> Str(decoded.str)]

RECURSIVE QsReduceFirstWins(_, _, _)
QsReduceFirstWins(tokens, i, reduction) ==
    IF i > Len(tokens) THEN [threw |-> FALSE, map |-> reduction]
    ELSE LET parts == Split(tokens[i], "=")
             key   == parts[1]
             hasValue == Len(parts) >= 2 /\ parts[2] # << >>
         IN  IF key # << >> /\ hasValue
             THEN LET parsed == parseValue(Str(parts[2]))
                  IN  IF parsed.threw THEN [threw |-> TRUE]
                      ELSE QsReduceFirstWins(tokens, i + 1,
                                             Assign([k \in {key} |-> parsed.value], reduction))
             ELSE QsReduceFirstWins(tokens, i + 1, reduction)

\* The reduce of qs over the '&'-separated tokens, from token i on:
\* [threw, map], the map's later entries overriding the earlier ones.
RECURSIVE QsReduce(_, _, _)
QsReduce(tokens, i, reduction) ==
    IF i > Len(tokens) THEN [threw |-> FALSE, map |-> reduction]
    ELSE LET parts == Split(tokens[i], "=")
             key   == parts[1]
             hasValue == Len(parts) >= 2 /\ parts[2] # << >>
         IN  IF key # << >> /\ hasValue
             THEN LET parsed == parseValue(Str(parts[2]))
                  IN  IF parsed.threw THEN [threw |-> TRUE]
                      ELSE QsReduce(tokens, i + 1,
                                    Assign(reduction, [k \in {key} |-> parsed.value]))
             ELSE QsReduce(tokens, i + 1, reduction)

\* qs(value): value is the query string, << >> when the URL has none.
qs(value) ==
    IF value = << >> THEN [threw |-> FALSE, map |-> EmptyMap]
    ELSE QsReduce(Split(value, "&"), 1, EmptyMap)

\* The index after the last character that is not '/', 0 when all are '/'.
RECURSIVE TrimEnd(_, _)
TrimEnd(s, n) == IF n > 0 /\ s[n] = "/" THEN TrimEnd(s, n - 1) ELSE n

\* .replace(/\/{2,}/g, '/'): every run of slashes becomes one slash.
RECURSIVE Collapse(_)
Collapse(s) ==
    IF Len(s) < 2 THEN s
    ELSE IF s[1] = "/" /\ s[2] = "/" THEN Collapse(Tail(s))
    ELSE << s[1] >> \o Collapse(Tail(s))

parseUriKeepsEnd(uri) ==
    LET replaced == Collapse(<< "/" >> \o uri)
    IN  IF replaced = << >> THEN << "/" >> ELSE replaced

\* parseUri(uri): `/${uri}`.replace(/\/*$/g, '').replace(/\/{2,}/g, '/') || '/'
parseUri(uri) ==
    LET slashed  == << "/" >> \o uri
        trimmed  == SubSeq(slashed, 1, TrimEnd(slashed, Len(slashed)))
        replaced == Collapse(trimmed)
    IN  IF replaced = << >> THEN << "/" >> ELSE replaced

\* url.parse(req.url), for a request target '/path' or '/path?query'.
ParseUrl(url) ==
    LET mark == NextSep(url, "?", 1)
    IN  [path     |-> url,
         pathname |-> SubSeq(url, 1, mark - 1),
         query    |-> SubSeq(url, mark + 1, Len(url))]

\* Characters of the model that contain a '.'.
DottedChars == {".", "favicon.ico"}


\* --------------------------------------------------------------- responder

\* An Error object: its message, and its statusCode property (0: it has none).
NewError(name, message, statusCode) ==
    [error |-> [name |-> name, message |-> message, statusCode |-> statusCode]]

IsError(v) == DOMAIN v = {"error"}

\* makeError(statusCode, err)
makeError(statusCode, err) ==
    IF IsError(err)
    THEN [error |-> [err.error EXCEPT !.statusCode = statusCode]]
    ELSE NewError("Error", ToMessage(Or(err, Str(L("Unknown Error")))), statusCode)

\* The response object as http.createServer hands it over.
NewResponse ==
    [statusCode |-> 200, headers |-> EmptyMap, body |-> << >>, ended |-> 0]

\* One more call recorded for the request: the logger, the response object
\* and the collaborators, in call order.
Note(f, event) == [f EXCEPT !.hist = Append(@, event)]

\* An exception leaves the current call stack.
Throw(f, err) == [f EXCEPT !.thrown = err]

NoError == [none |-> TRUE]

Threw(f) == f.thrown # NoError

\* JSON.stringify(data): a string, kept as the value it serialises.
Stringify(data) == [json |-> data]

IsJson(v) == DOMAIN v = {"json"}

\* res.write(chunk): Node raises TypeError for a chunk that is neither a
\* string nor a Buffer.
ResWrite(f, chunk) ==
    IF IsStr(chunk) \/ IsBuf(chunk) \/ IsJson(chunk)
    THEN Note([f EXCEPT !.res.body = Append(@, chunk)], [op |-> "write", chunk |-> chunk])
    ELSE Throw(f, NewError("TypeError", L("First argument must be a string or Buffer"), 0))

\* res.end()
ResEnd(f) == Note([f EXCEPT !.res.ended = @ + 1], [op |-> "end"])

\* writeError(res, err)
writeErrorLogLast(f, err) ==
    LET status == IF err.error.statusCode # 0 THEN err.error.statusCode ELSE 500
        coded  == [f EXCEPT !.res.statusCode = status]
    IN  Note(ResEnd(ResWrite(coded, Stringify(err))), [op |-> "log", err |-> err])

writeError(f, err) ==
    LET logged == Note(f, [op |-> "log", err |-> err])
        status == IF err.error.statusCode # 0 THEN err.error.statusCode ELSE 500
        coded  == [logged EXCEPT !.res.statusCode = status]
    IN  ResEnd(ResWrite(coded, Stringify(err)))

\* write(res, data = '', statusCode = 200)
WrittenEndsAgain(written) == ResEnd(ResEnd(written))

Written(written) == IF Threw(written) THEN written ELSE ResEnd(written)

write(f, data, statusCode) ==
    Written(ResWrite([f EXCEPT !.res.statusCode = statusCode],
                     IF (TypeofObject(data) \/ IsNum(data)) /\ ~IsBuf(data)
                     THEN Stringify(data)
                     ELSE data))

DefaultHeaders ==
    [k \in {L("content-type"), L("access-control-allow-origin")} |->
        IF k = L("content-type") THEN Str(L("application/json")) ELSE Str(L("*"))]

\* setHeaders(res, headers = {})
setHeaders(f, headers) ==
    LET merged == Assign(DefaultHeaders, headers)
    IN  Note([f EXCEPT !.res.headers = Assign(@, merged)],
             [op |-> "setHeaders", headers |-> merged])

\* new Buffer(data, 'base64') for a truthy data: the decoded bytes of a
\* string, the bytes of an array, a buffer of that size for a number;
\* TypeError for a plain object or a boolean.
NewBuffer(f, data) ==
    IF IsStr(data) THEN [f |-> f, data |-> Buf(data.str)]
    ELSE IF IsBuf(data) THEN [f |-> f, data |-> data]
    ELSE IF IsArr(data) THEN [f |-> f, data |-> Buf(L("<array bytes>"))]
    ELSE IF IsNum(data) THEN [f |-> f, data |-> Buf(L("<allocated bytes>"))]
    ELSE [f |-> Throw(f, NewError("TypeError", L("First argument must be a string, Buffer, ArrayBuffer, Array, or array-like object."), 0)),
          data |-> data]

\* responds(res, err, data, headers = {}, base64 = false); err is NoError
\* for a null err.
Made(made) == IF Threw(made.f) THEN made.f ELSE write(made.f, made.data, 200)

Headed(headed, err, data, base64) ==
    IF err # NoError THEN writeError(headed, err)
    ELSE IF Truthy(data) /\ Truthy(base64) THEN Made(NewBuffer(headed, data))
    ELSE write(headed, IF IsUndef(data) THEN Str(<< >>) ELSE data, 200)

responds(f, err, data, headers, base64) ==
    Headed(setHeaders(Note(f, [op |-> "responds", err |-> err, data |-> data,
                               headers |-> headers, base64 |-> base64]),
                      headers),
           err, data, base64)

\* ------------------------------------------------------------------ router

\* What findFunction returns when no route matches.
null == [isNull |-> TRUE]

\* The value Array.prototype.map yields for a dropped variant (null); no
\* real path has an empty segment.
NullPath == << << >> >>

PrefixesShortestFirst(url) ==
    LET array == SelectSeq(Split(url, "/"), LAMBDA token : token # << >>)
    IN  [index \in 1 .. Len(array) |-> SubSeq(array, 1, index)]

\* url.split('/').reduce(token ? concat : skip).map(slice(0, length - index)):
\* the prefixes of the URI's segments, longest first.
Prefixes(url) ==
    LET array == SelectSeq(Split(url, "/"), LAMBDA token : token # << >>)
    IN  [index \in 1 .. Len(array) |-> SubSeq(array, 1, Len(array) - (index - 1))]

\* new Array(max).fill('*')
Seed(max) == [i \in 1 .. max |-> << "*" >>]

\* The inner paths.map of round `index` (0-based as in the code): every
\* prefix with its first min(index + 1, length) segments replaced by '*';
\* an all-'*' variant is dropped unless this is the last round.
WildcardRound(paths, index) ==
    LET isLast == index >= Len(paths) - 1
    IN  [innerIndex \in 1 .. Len(paths) |->
            LET path == paths[innerIndex]
                max  == Min(index + 1, Len(path))
            IN  IF ~isLast /\ Len(path) = max
                THEN NullPath
                ELSE Seed(max) \o SubSeq(path, max + 1, Len(path))]

\* paths.reduce(..., paths): the exact prefixes, then round 0, round 1, ...
RECURSIVE CreateWildcards(_, _)
CreateWildcards(paths, index) ==
    IF index > Len(paths) - 1 THEN << >>
    ELSE WildcardRound(paths, index) \o CreateWildcards(paths, index + 1)

CandidatesWildcardsFirst(url) ==
    SelectSeq(CreateWildcards(Prefixes(url), 0) \o Prefixes(url), LAMBDA path : path # NullPath)

\* The candidate paths in the order the lookup loop scans them.
Candidates(url) ==
    LET paths == Prefixes(url)
    IN  SelectSeq(paths \o CreateWildcards(paths, 0), LAMBDA path : path # NullPath)

\* `/${paths[i].join('/')}`
PathKey(path) == << "/" >> \o Join(path, "/")

\* this.lambdas[path] is truthy
HasRoute(table, key) == key \in DOMAIN table

\* The for loop: the entry of the first candidate that is a key of the table.
RECURSIVE Lookup(_, _, _)
Lookup(table, paths, i) ==
    IF i > Len(paths) THEN null
    ELSE IF HasRoute(table, PathKey(paths[i])) THEN table[PathKey(paths[i])]
    ELSE Lookup(table, paths, i + 1)

findFunction(table, url) ==
    IF url # << "/" >>
    THEN Lookup(table, Candidates(url), 1)
    ELSE IF HasRoute(table, << "/" >>) THEN table[<< "/" >>]
    ELSE IF HasRoute(table, << "/", "*" >>) THEN table[<< "/", "*" >>]
    ELSE null

\* --------------------------------------------------------- configuration

\* A LambdaSpec option that is either a literal or a function of the request.
Lit(v) == [lit |-> v]
Fn(name) == [fn |-> name]

\* The functions the route tables of this model configure:
\*   always   args => true                  (cache.enabled of the test suite)
\*   isGet    args => args.method === 'GET'
\*   pathname args => args.url.pathname     (cache.key of the test suite)
ApplyFn(name, args) ==
    IF name = "always" THEN Bool(TRUE)
    ELSE IF name = "isGet" THEN Bool(args.method = "GET")
    ELSE Str(args.url.pathname)

\* typeof option === 'function' ? option(args) : option
Eval(option, args) ==
    IF DOMAIN option = {"fn"} THEN ApplyFn(option.fn, args) ELSE option.lit

NoCache == [set |-> FALSE]
Cache(enabled, key) == [set |-> TRUE, enabled |-> enabled, key |-> key]

\* lambda.auth: absent, a truthy non-object (auth: true), or an object.
NoAuth == [kind |-> "none"]
WrongAuth == [kind |-> "true"]
Auth(allowedFields, secret, audience, requiredRoles) ==
    [kind |-> "object", allowedFields |-> allowedFields, token |-> Lit(Undef),
     secret |-> secret, audience |-> audience, requiredRoles |-> requiredRoles]

NoDefaults ==
    [requestParams |-> EmptyMap, responseHeaders |-> EmptyMap, responseBase64 |-> Undef]

Lambda(name, paramsOnly, defaults, cache, auth) ==
    [name |-> name, version |-> Undef, paramsOnly |-> paramsOnly,
     defaults |-> defaults, cache |-> cache, auth |-> auth]

\* A route with a name only.
Plain(name) == Lambda(name, FALSE, NoDefaults, NoCache, NoAuth)

\* -------------------------------------------------------------------- jwt

AdminToken  == L("adminToken")
PublicToken == L("publicToken")
\* publicToken + 1 of the test suite: the public payload, a broken signature.
ForgedToken == L("publicToken1")
\* A token signed with the secret whose payload has no role claim.
NoRoleToken == L("noRoleToken")
\* A token signed with the secret whose user claim is the empty string.
AnonymousToken == L("anonymousToken")

MySecret == Str(L("mySecret"))

Claims(token) ==
    IF token = AdminToken
    THEN [k \in {L("mightBeHidden"), L("role"), L("user")} |->
            IF k = L("mightBeHidden") THEN Bool(TRUE)
            ELSE IF k = L("role") THEN Str(L("admin")) ELSE Str(L("admin-0"))]
    ELSE IF token = NoRoleToken
    THEN [k \in {L("user")} |-> Str(L("user-1"))]
    ELSE IF token = AnonymousToken
    THEN [k \in {L("role"), L("user")} |->
            IF k = L("role") THEN Str(L("public")) ELSE Str(<< >>)]
    ELSE [k \in {L("mightBeHidden"), L("role"), L("namespace"), L("user")} |->
            IF k = L("mightBeHidden") THEN Bool(TRUE)
            ELSE IF k = L("role") THEN Str(L("public"))
            ELSE IF k = L("namespace") THEN Str(L("spec")) ELSE Str(L("user-0"))]

WellFormed(token) ==
    IsStr(token)
    /\ token.str \in {AdminToken, PublicToken, ForgedToken, NoRoleToken, AnonymousToken}

\* jwt.decode(token): the payload without any verification, null for
\* anything that is not a token.
decode(token) == IF WellFormed(token) THEN Obj(Claims(token.str)) ELSE Nul

JwtError(message) == NewError("JsonWebTokenError", L(message), 0)

\* jwt.verify(token, secret, options): [ok |-> TRUE, payload] or
\* [ok |-> FALSE, err].  None of the tokens carries an aud claim.
verify(token, secret, audience) ==
    IF ~Truthy(token) THEN [ok |-> FALSE, err |-> JwtError("jwt must be provided")]
    ELSE IF ~IsStr(token) THEN [ok |-> FALSE, err |-> JwtError("jwt must be a string")]
    ELSE IF ~WellFormed(token) THEN [ok |-> FALSE, err |-> JwtError("jwt malformed")]
    ELSE IF token.str = ForgedToken \/ secret # MySecret
    THEN [ok |-> FALSE, err |-> JwtError("invalid signature")]
    ELSE IF ~IsUndef(audience)
    THEN [ok |-> FALSE, err |-> JwtError("jwt audience invalid")]
    ELSE [ok |-> TRUE, payload |-> Claims(token.str)]

\* --------------------------------------------------------------- handleAuth

\* const auth = lambda && lambda.auth
AuthOf(lambda) == IF lambda = null THEN NoAuth ELSE lambda.auth

\* headers['authorization'] || params.token || null
GotToken(args) ==
    Or(Field(Obj(args.headers), L("authorization")),
       Or(Field(Obj(args.params), L("token")), Nul))

\* The .map of handleAuth: the allowed fields and role that the verified
\* payload carries with a truthy value, assigned to params.auth.
AuthFields(allowedFields, payload) ==
    [key \in {k \in allowedFields \cup {L("role")} :
                k \in DOMAIN payload /\ Truthy(payload[k])} |-> payload[key]]

\* The token functions the route tables of this model configure:
\*   paramToken   (params, headers) => params.token
ApplyToken(name, params, headers) == Field(Obj(params), L("token"))

\* typeof token === 'function' ? token(params, headers) : (the default)
ResolvedParamsFirst(auth, args) ==
    IF DOMAIN auth.token = {"fn"}
    THEN ApplyToken(auth.token.fn, args.params, args.headers)
    ELSE Or(Field(Obj(args.params), L("token")),
            Or(Field(Obj(args.headers), L("authorization")), Nul))

ResolvedToken(auth, args) ==
    IF DOMAIN auth.token = {"fn"}
    THEN ApplyToken(auth.token.fn, args.params, args.headers)
    ELSE GotToken(args)

WithAuth(args, authFields) ==
    [args EXCEPT !.params = Assign(@, [k \in {L("auth")} |-> Obj(authFields)])]

RoleUnchecked(auth, newArgs) == [ok |-> TRUE, verified |-> TRUE, args |-> newArgs]

\* The .do of handleAuth on the args the .map made.
RoleChecked(auth, newArgs) ==
    IF auth.requiredRoles.set
       /\ Field(Field(Obj(newArgs.params), L("auth")), L("role")) \notin auth.requiredRoles.roles
    THEN [ok |-> FALSE, verified |-> TRUE,
          err |-> makeError(403, NewError("Error", L("Forbidden"), 0))]
    ELSE [ok |-> TRUE, verified |-> TRUE, args |-> newArgs]

\* The chain on jwt.verify's result; the .catch rethrows makeError(403, err).
Chained(auth, args, verified) ==
    IF ~verified.ok
    THEN [ok |-> FALSE, verified |-> FALSE, err |-> makeError(403, verified.err)]
    ELSE RoleChecked(auth, WithAuth(args, AuthFields(auth.allowedFields, verified.payload)))

\* The observable handleAuth builds for an auth object, once jwt.verify has
\* called back: [ok |-> TRUE, args] or [ok |-> FALSE, err], and whether the
\* verification itself succeeded.
handleAuth(lambda, args) ==
    Chained(lambda.auth, args,
            verify(ResolvedToken(lambda.auth, args), lambda.auth.secret, lambda.auth.audience))

Roles(roles) == [set |-> TRUE, roles |-> roles]
AnyRole == [set |-> FALSE]

\* --------------------------------------------------------------- callLambda

DEFAULT_VERSION == Str(L("$LATEST"))

\* The target of an Object.assign: an object made for the call, or an
\* object of the route table (a field of a LambdaSpec's defaults).
NewObject == [fresh |-> TRUE]

DefaultsOf(lambda, field) == [lambda |-> lambda, field |-> field]

\* Object.assign(target, ...): the target takes the merged fields; a write
\* to an object of the route table is the request's to answer for.
ObjectAssign(f, target, value) ==
    IF target = NewObject THEN f
    ELSE [f EXCEPT !.stores = Append(@, [target |-> target, value |-> value])]

\* The route table after the writes a handler made to its objects.
RECURSIVE Stored(_, _)
Stored(table, stores) ==
    IF stores = << >> THEN table
    ELSE Stored([key \in DOMAIN table |->
                    IF table[key] = stores[1].target.lambda
                    THEN [table[key] EXCEPT !.defaults[stores[1].target.field] = stores[1].value]
                    ELSE table[key]],
                Tail(stores))

\* Object.assign({}, defaults.requestParams, params)
MergedParamsDefaultsWin(lambda, args) == Assign(args.params, lambda.defaults.requestParams)

MergedParams(lambda, args) == Assign(lambda.defaults.requestParams, args.params)

MergedParamsIntoDefaults(lambda) == DefaultsOf(lambda, "requestParams")

\* The target of that Object.assign: the literal {}.
MergedParamsTarget(lambda) == NewObject

\* The target of Object.assign({}, defaults.responseHeaders, headers).
ShapeHeadersTarget(lambda) == NewObject

\* this.cacheDriver && lambda.cache && (enabled of args)
CacheEnabled(driver, lambda, args) ==
    driver /\ lambda.cache.set /\ Truthy(Eval(lambda.cache.enabled, args))

\* doCache reaches this.cacheDriver.get: the computed key is a string.
UsesCache(driver, lambda, args) ==
    CacheEnabled(driver, lambda, args) /\ IsStr(Eval(lambda.cache.key, args))

CacheLookupNoPrefix(prefix, lambda, args) ==
    [namespace |-> args.host, key |-> Eval(lambda.cache.key, args).str]

\* The first argument of this.cacheDriver.get.
CacheLookup(prefix, lambda, args) ==
    [namespace |-> args.host, key |-> prefix \o Eval(lambda.cache.key, args).str]

\* The arguments of this.invoke in doInvoke.
InvokeCall(lambda, args) ==
    [op      |-> "invoke",
     name    |-> lambda.name,
     payload |-> IF lambda.paramsOnly
                 THEN Obj(MergedParams(lambda, args))
                 ELSE Obj([k \in {L("method"), L("headers"), L("body"), L("params"), L("uri")} |->
                            IF k = L("method") THEN Str(L(args.method))
                            ELSE IF k = L("headers") THEN Obj(args.headers)
                            ELSE IF k = L("body") THEN args.body
                            ELSE IF k = L("params") THEN Obj(MergedParams(lambda, args))
                            ELSE Str(args.uri)]),
     version |-> Or(lambda.version, DEFAULT_VERSION)]

\* Object.assign's view of a source: the own fields of an object, none of
\* a number, a boolean, null or undefined.
Own(v) == IF IsObj(v) THEN v.obj ELSE EmptyMap

Envelope(body, headers, base64, statusCode) ==
    Obj([k \in {L("body"), L("headers"), L("base64"), L("statusCode")} |->
            IF k = L("body") THEN body
            ELSE IF k = L("headers") THEN headers
            ELSE IF k = L("base64") THEN base64
            ELSE statusCode])

\* The .map of callLambda on a response that is not null or undefined.
ShapeStatus200(lambda, response) ==
    LET defaults == lambda.defaults
        body     == Field(response, L("body"))
        headers  == Field(response, L("headers"))
        base64   == Default(Field(response, L("base64")),
                            Or(defaults.responseBase64, Bool(FALSE)))
    IN  IF Truthy(body) /\ Truthy(headers)
        THEN Envelope(body, Obj(Assign(defaults.responseHeaders, Own(headers))),
                      base64, Default(Field(response, L("statusCode")), Num(200)))
        ELSE Envelope(response, Obj(defaults.responseHeaders), base64, Num(200))

Shape(lambda, response) ==
    LET defaults   == lambda.defaults
        body       == Field(response, L("body"))
        headers    == Field(response, L("headers"))
        base64     == Default(Field(response, L("base64")),
                              Or(defaults.responseBase64, Bool(FALSE)))
        statusCode == Default(Field(response, L("statusCode")), Num(200))
    IN  IF Truthy(body) /\ Truthy(headers)
        THEN Envelope(body, Obj(Assign(defaults.responseHeaders, Own(headers))),
                      base64, statusCode)
        ELSE Envelope(response, Obj(defaults.responseHeaders), base64, statusCode)

\* ------------------------------------------------------------ parseRequest

TypeError(message) == NewError("TypeError", L(message), 0)

\* The state of one request from the server callback on: where it waits
\* (pc), the request, the parsed args, the calls made so far (hist), the
\* response object, and the exception in flight, if any.
NoRequest == [method |-> "", url |-> << >>, headers |-> EmptyMap]

NoArgs == [none |-> TRUE]

Idle ==
    [pc |-> "idle", req |-> NoRequest, args |-> NoArgs, hist |-> << >>,
     thrown |-> NoError, res |-> NewResponse, stores |-> << >>]

NewFlow(req) == [Idle EXCEPT !.pc = "handle", !.req = req]

At(f, pc) == [f EXCEPT !.pc = pc]

\* The args object of parseRequest, before any body is read; qs may raise
\* URIError.
parseRequest(f) ==
    LET req    == f.req
        url    == ParseUrl(req.url)
        params == qs(url.query)
    IN  IF params.threw THEN Throw(f, NewError("URIError", L("URI malformed"), 0))
        ELSE [f EXCEPT !.args =
                [body         |-> Obj(EmptyMap),
                 hasExtension |-> \E i \in 1 .. Len(url.pathname) : url.pathname[i] \in DottedChars,
                 headers      |-> req.headers,
                 host         |-> Field(Obj(req.headers), L("host")),
                 method       |-> req.method,
                 params       |-> params.map,
                 url          |-> url,
                 uri          |-> parseUri(url.pathname)]]

\* args as the value the subscriber receives when no backend is called.
ArgsValue(args) ==
    Obj([k \in {L("body"), L("hasExtension"), L("headers"), L("host"), L("method"),
                L("params"), L("url"), L("uri")} |->
            IF k = L("body") THEN args.body
            ELSE IF k = L("hasExtension") THEN Bool(args.hasExtension)
            ELSE IF k = L("headers") THEN Obj(args.headers)
            ELSE IF k = L("host") THEN args.host
            ELSE IF k = L("method") THEN Str(L(args.method))
            ELSE IF k = L("params") THEN Obj(args.params)
            ELSE IF k = L("url")
            THEN Obj([u \in {L("path"), L("pathname"), L("query")} |->
                        IF u = L("path") THEN Str(args.url.path)
                        ELSE IF u = L("pathname") THEN Str(args.url.pathname)
                        ELSE Str(args.url.query)])
            ELSE Str(args.uri)])

\* ------------------------------------------------------------------ handle

\* The next handler of handle's subscribe.  statusCode >= 400 is decided
\* on numbers; the backends of this model return no other status codes.
NextHandler(f, response) ==
    LET body       == Default(Field(response, L("body")), Nul)
        headers    == Default(Field(response, L("headers")), Obj(EmptyMap))
        base64     == Default(Field(response, L("base64")), Bool(FALSE))
        statusCode == Default(Field(response, L("statusCode")), Num(200))
        data       == Or(body, response)
        err        == IF IsNum(statusCode) /\ statusCode.num >= 400
                      THEN makeError(statusCode.num, data)
                      ELSE NoError
    IN  At(responds(f, err, data, Own(headers), base64), "done")

\* The error handler of handle's subscribe, and the err branch of the
\* parseRequest callback: responds(res, err).
ErrorHandlerForbidden(f, err) ==
    At(responds(f, makeError(403, err), Undef, EmptyMap, Bool(FALSE)), "done")

ErrorHandler(f, err) == At(responds(f, err, Undef, EmptyMap, Bool(FALSE)), "done")

\* The .map of callLambda followed by the next handler; destructuring null
\* or undefined raises TypeError inside the projection, which Rx hands to
\* the error handler.
Mapped(f, lambda, response) ==
    IF IsNul(response) \/ IsUndef(response)
    THEN ErrorHandler(f, TypeError("Cannot destructure property of null or undefined"))
    ELSE NextHandler(IF Truthy(Field(response, L("body"))) /\ Truthy(Field(response, L("headers")))
                     THEN ObjectAssign(f, ShapeHeadersTarget(lambda),
                                       Assign(lambda.defaults.responseHeaders,
                                              Own(Field(response, L("headers")))))
                     ELSE f,
                     Shape(lambda, response))

\* callLambda(lambda, args) up to the call that waits: CacheStore.get when
\* the request is cached, the invoker otherwise.
Called(f, lambda, args) ==
    IF UsesCache(cacheDriver, lambda, args)
    THEN At(Note(f, [op |-> "get", lookup |-> CacheLookup(cachePrefix, lambda, args)]), "get")
    ELSE At(Note(f, InvokeCall(lambda, args)), "invoke")

callLambda(f, lambda, args) ==
    Called(ObjectAssign(f, MergedParamsTarget(lambda), MergedParams(lambda, args)), lambda, args)

\* handleAuth(lambda, args) as far as it runs when handle calls it: the
\* token is decoded at once, the verification runs on subscribe.
Decoded(f, lambda) ==
    IF AuthOf(lambda).kind = "object"
    THEN Note(f, [op |-> "decode", token |-> ResolvedToken(lambda.auth, f.args)])
    ELSE f

\* The verification, recorded for the request.  [f, ok, args | err]
Verify(f, lambda, outcome) ==
    Note(f, [op |-> "verify", token |-> ResolvedToken(lambda.auth, f.args),
             ok |-> outcome.verified])

Verified(f, lambda, outcome) ==
    IF outcome.ok
    THEN [f |-> Verify(f, lambda, outcome), ok |-> TRUE, args |-> outcome.args]
    ELSE [f |-> Verify(f, lambda, outcome), ok |-> FALSE, err |-> outcome.err]

\* Subscribing to the observable of handleAuth: jsonwebtoken calls back
\* within the call.  [f, ok, args | err]
SubscribedThroughCatch(f, lambda) ==
    IF AuthOf(lambda).kind = "none" THEN [f |-> f, ok |-> TRUE, args |-> f.args]
    ELSE IF AuthOf(lambda).kind = "true"
    THEN [f |-> f, ok |-> FALSE,
          err |-> makeError(403, NewError("Error", L("auth should be an object."), 0))]
    ELSE Verified(f, lambda, handleAuth(lambda, f.args))

Subscribed(f, lambda) ==
    IF AuthOf(lambda).kind = "none" THEN [f |-> f, ok |-> TRUE, args |-> f.args]
    ELSE IF AuthOf(lambda).kind = "true"
    THEN [f |-> f, ok |-> FALSE,
          err |-> NewError("Error", L("auth should be an object."), 0)]
    ELSE Verified(f, lambda, handleAuth(lambda, f.args))

MarkToRefresh == Str(L("markToRefresh"))
Unset == Str(L("unset"))
CachePathname == << "/", "cache" >>

\* operation.subscribe(...) of a cache-admin request that no CacheStore
\* operation serves: the subscriber receives args.
Echoed(sub) ==
    IF sub.ok THEN NextHandler(sub.f, ArgsValue(sub.args)) ELSE ErrorHandler(sub.f, sub.err)

MergedWhateverAuth(sub, lambda) == callLambda(sub.f, lambda, sub.f.args)

\* operation.mergeMap(args => this.callLambda(lambda, args)).subscribe(...)
Merged(sub, lambda) ==
    IF sub.ok
    THEN callLambda([sub.f EXCEPT !.args = sub.args], lambda, sub.args)
    ELSE ErrorHandler(sub.f, sub.err)

\* The cache operation branch of the callback.
CacheRequestHostWins(decoded, lambda, body, host) ==
    IF IsNul(body) \/ IsUndef(body)
    THEN Throw(decoded, TypeError("Cannot destructure property `operation` of 'undefined' or 'null'."))
    ELSE IF cacheDriver /\ Default(Field(body, L("operation")), MarkToRefresh) \in {MarkToRefresh, Unset}
    THEN At(Note(decoded,
                 [op   |-> "cacheOp",
                  name |-> Default(Field(body, L("operation")), MarkToRefresh).str,
                  args |-> Assign(Own(body), [k \in {L("namespace")} |-> host])]),
            "cacheOp")
    ELSE Echoed(Subscribed(decoded, lambda))

CacheRequest(decoded, lambda, body, host) ==
    IF IsNul(body) \/ IsUndef(body)
    THEN Throw(decoded, TypeError("Cannot destructure property `operation` of 'undefined' or 'null'."))
    ELSE IF cacheDriver /\ Default(Field(body, L("operation")), MarkToRefresh) \in {MarkToRefresh, Unset}
    THEN At(Note(decoded,
                 [op   |-> "cacheOp",
                  name |-> Default(Field(body, L("operation")), MarkToRefresh).str,
                  args |-> Assign([k \in {L("namespace")} |-> host], Own(body))]),
            "cacheOp")
    ELSE Echoed(Subscribed(decoded, lambda))

RoutedLambdaFirst(f, lambda, cacheRequest) ==
    IF lambda # null
    THEN Merged(Subscribed(Decoded(f, lambda), lambda), lambda)
    ELSE IF cacheRequest
    THEN CacheRequest(Decoded(f, lambda), lambda, f.args.body, f.args.host)
    ELSE ErrorHandler(f, makeError(404, Str(L("Not Found"))))

\* The callback from the route on.
Routed(f, lambda, cacheRequest) ==
    IF lambda # null \/ cacheRequest
    THEN IF cacheRequest
         THEN CacheRequest(Decoded(f, lambda), lambda, f.args.body, f.args.host)
         ELSE Merged(Subscribed(Decoded(f, lambda), lambda), lambda)
    ELSE ErrorHandler(f, makeError(404, Str(L("Not Found"))))

CallbackAnyMethod(f) ==
    Routed(Note(f, [op |-> "findFunction", url |-> f.args.uri]),
           findFunction(lambdas, f.args.uri),
           f.args.url.pathname = CachePathname)

\* The callback handle gives to parseRequest, for a null err.
Callback(f) ==
    Routed(Note(f, [op |-> "findFunction", url |-> f.args.uri]),
           findFunction(lambdas, f.args.uri),
           f.args.method = "POST" /\ f.args.url.pathname = CachePathname)

FaviconUrl == << "/", "favicon.ico" >>

\* handle(req, res), up to its return.
\* parseRequest from the args object on: the body parser for POST and PUT,
\* the callback at once otherwise.
Parsed(parsed) ==
    IF Threw(parsed) THEN parsed
    ELSE IF parsed.req.method \in {"POST", "PUT"}
    THEN At(Note(parsed, [op |-> "bodyParser"]), "bodyParser")
    ELSE Callback(parsed)

handleOptionsOnly(f) ==
    IF f.req.method = "OPTIONS"
    THEN At(write(f, Str(<< >>), 200), "done")
    ELSE Parsed(parseRequest(f))

handle(f) ==
    IF f.req.method = "OPTIONS" \/ f.req.url = FaviconUrl
    THEN At(write(f, Str(<< >>), 200), "done")
    ELSE Parsed(parseRequest(f))

\* The callback of http.createServer: handle inside try, and the catch
\* that logs the error and writes it.
Caught(handled) ==
    IF Threw(handled)
    THEN At(writeError(Note([handled EXCEPT !.thrown = NoError],
                            [op |-> "log", err |-> handled.thrown]),
                       handled.thrown),
            "done")
    ELSE handled

Server(req) == Caught(handle(NewFlow(req)))

\* ------------------------------------------------------------- the gateway

Reqs == 1 .. MaxReqs

vars == << lambdas, cacheDriver, cachePrefix, crashed, flows, query, store >>

FunctionName == L("functionName")

\* defaults of the test suite's '/mocked' route.
MockedDefaults ==
    [requestParams   |-> [k \in {L("width"), L("height")} |-> Num(200)],
     responseHeaders |-> [k \in {L("content-type")} |-> Str(L("image/png"))],
     responseBase64  |-> Bool(TRUE)]

UserOnly == {L("user")}

P1(a) == << "/", a >>
P2(a, b) == << "/", a, "/", b >>
P3(a, b, c) == << "/", a, "/", b, "/", c >>

\* The routes of the test suite's gateway, and routes for the options the
\* suite leaves out: a version, cache options given as literals, a key that
\* is no string, and verify options.
FixtureRoute(key) ==
    IF key = P1("mocked") THEN Lambda(FunctionName, TRUE, MockedDefaults, NoCache, NoAuth)
    ELSE IF key = P1("cached")
    THEN Lambda(FunctionName, FALSE, NoDefaults, Cache(Fn("always"), Fn("pathname")), NoAuth)
    ELSE IF key = P1("cachedWithMocked")
    THEN Lambda(FunctionName, TRUE, MockedDefaults, Cache(Fn("always"), Fn("pathname")), NoAuth)
    ELSE IF key = P1("versioned")
    THEN [Lambda(FunctionName, FALSE, MockedDefaults, NoCache, NoAuth)
            EXCEPT !.version = Str(L("1"))]
    ELSE IF key = P1("getOnly")
    THEN Lambda(FunctionName, FALSE, NoDefaults,
                Cache(Fn("isGet"), Lit(Str(L("fixedKey")))), NoAuth)
    ELSE IF key = P1("noKey")
    THEN Lambda(FunctionName, FALSE, NoDefaults, Cache(Lit(Bool(TRUE)), Lit(Undef)), NoAuth)
    ELSE IF key = P1("wrongAuth")
    THEN Lambda(FunctionName, FALSE, NoDefaults, NoCache, WrongAuth)
    ELSE IF key = P1("authOnly")
    THEN Lambda(FunctionName, FALSE, NoDefaults, NoCache,
                Auth(UserOnly, MySecret, Undef, AnyRole))
    ELSE IF key = P1("adminRoleOnly")
    THEN Lambda(FunctionName, FALSE, NoDefaults, NoCache,
                Auth(UserOnly, MySecret, Undef, Roles({Str(L("admin"))})))
    ELSE IF key = P1("tokenFn")
    THEN Lambda(FunctionName, FALSE, NoDefaults, NoCache,
                [Auth(UserOnly, MySecret, Undef, AnyRole) EXCEPT !.token = Fn("paramToken")])
    ELSE IF key = P1("audience")
    THEN Lambda(FunctionName, FALSE, NoDefaults, NoCache,
                Auth(UserOnly, MySecret, Str(L("api")), AnyRole))
    ELSE IF key = P1("*")
    THEN Lambda(L("catchAll"), FALSE, NoDefaults, Cache(Fn("always"), Fn("pathname")),
                Auth(UserOnly, MySecret, Undef, Roles({Str(L("admin"))})))
    ELSE Plain(FunctionName)

FixtureKeys ==
    {<< "/" >>, P1("mocked"), P1("cached"), P1("cachedWithMocked"), P1("versioned"),
     P1("getOnly"), P1("noKey"), P1("wrongAuth"),
     P1("authOnly"), P1("adminRoleOnly"), P1("audience"), P1("tokenFn")}

\* The configured route tables: the fixture, the fixture behind a guarded
\* catch-all route '/*', and a table without routes.
GatewayTables ==
    {[key \in keys |-> FixtureRoute(key)] : keys \in {FixtureKeys, FixtureKeys \cup {P1("*")}, {}}}

Tokens == {AdminToken, PublicToken, ForgedToken, NoRoleToken, AnonymousToken}

Host == Str(L("localhost"))

RequestHeaders ==
    {[k \in {L("host")} |-> Host]}
    \cup {[k \in {L("host"), L("authorization")} |->
            IF k = L("host") THEN Host ELSE Str(token)] : token \in Tokens}

RequestUrls ==
    {<< "/" >>, FaviconUrl, CachePathname, P1("cached"), P1("getOnly"), P1("noKey"),
     P1("mocked"), P1("wrongAuth"), P1("authOnly"), P1("adminRoleOnly"), P1("audience"),
     P1("missing"),
     << "/", "/", "cached", "/" >>,
     << "/", "authOnly", "?", "token", "=", "publicToken" >>,
     << "/", "tokenFn", "?", "token", "=", "publicToken" >>,
     << "/", "mocked", "?", "width", "=", "1", "0" >>,
     << "/", "versioned", "?", "width", "=", "1", "0" >>,
     P1("cachedWithMocked"),
     << "/", "?", "a", "=", "%" >>,
     << "/", "?", "auth", "=", "1" >>,
     << "/", "authOnly", "?", "auth", "=", "1" >>}

Methods == {"GET", "POST", "PUT", "OPTIONS"}

Requests == [method : Methods, url : RequestUrls, headers : RequestHeaders]

\* What the collaborators call back with.
Failed(err) == [failed |-> TRUE, err |-> err]
Gave(value) == [failed |-> FALSE, value |-> value]

One(key, value) == [k \in {key} |-> value]

\* The answer of a collaborator, recorded for the request.
Answered(f, of, outcome) == Note(f, [op |-> "answer", of |-> of, outcome |-> outcome])

\* body/json: an error, with or without a statusCode, or the parsed JSON.
BodyOutcomes ==
    {Failed(NewError("SyntaxError", L("Unexpected token"), 0)),
     Failed(NewError("Error", L("request entity too large"), 413)),
     Gave(Obj(EmptyMap)),
     Gave(Obj(One(L("operation"), Unset))),
     Gave(Obj(Assign(One(L("operation"), Unset), One(L("namespace"), Str(L("other")))))),
     Gave(Obj(One(L("operation"), Str(L("clear"))))),
     Gave(Nul),
     Gave(Bool(TRUE))}

TextPlain == Obj(One(L("content-type"), Str(L("text/plain"))))

\* The backend: an SDK error, or the parsed Payload.
BackendOutcomes ==
    {Failed(NewError("Error", L("Lambda error"), 0)),
     Failed(NewError("TooManyRequestsException", L("Rate Exceeded."), 429)),
     Gave(Str(L("result"))),
     Gave(Obj(Assign(One(L("body"), Str(L("body"))), One(L("headers"), TextPlain)))),
     Gave(Obj(Assign(Assign(One(L("body"), Str(L("denied"))), One(L("headers"), Obj(EmptyMap))),
                     One(L("statusCode"), Num(401))))),
     Gave(Obj(Assign(One(L("statusCode"), Num(404)), One(L("base64"), Bool(TRUE))))),
     Gave(Obj(Assign(One(L("statusCode"), Num(401)), One(L("body"), Str(L("Forbidden Error")))))),
     Gave(Obj(Assign(One(L("body"), Str(<< >>)), One(L("headers"), TextPlain)))),
     Gave(Obj(Assign(Assign(One(L("body"), Str(L("created"))), One(L("headers"), Obj(EmptyMap))),
                     One(L("statusCode"), Num(201))))),
     Gave(Num(0)),
     Gave(Str(<< >>)),
     Gave(Bool(TRUE)),
     Gave(Nul)}

\* CacheStore.get: an error; a fresh entry, whose value is given; no entry,
\* the fallback is run and its result given; a stale entry, whose value is
\* given while the fallback is run to refresh it.
Fallback == [fallback |-> TRUE]

Stale(value) == [failed |-> FALSE, value |-> value, stale |-> TRUE]

IsStale(outcome) == "stale" \in DOMAIN outcome

CacheOutcomes ==
    {Failed(NewError("Error", L("cache error"), 0)),
     Gave(Str(L("cached"))),
     Gave(Obj(Assign(One(L("body"), Str(L("body"))), One(L("headers"), TextPlain)))),
     Stale(Str(L("cached"))),
     Fallback}

\* CacheStore.markToRefresh and unset.
CacheOpOutcomes ==
    {Failed(NewError("Error", L("cache error"), 0)), Gave(Num(1))}

Init ==
    /\ lambdas \in GatewayTables
    /\ cacheDriver \in BOOLEAN
    /\ cachePrefix \in {<< >>, L("cachePrefix_")}
    /\ crashed = FALSE
    /\ flows = [r \in Reqs |-> Idle]
    /\ query = [asked |-> FALSE]
    /\ store = EmptyMap

\* An exception that leaves a callback of the event loop is uncaught: the
\* process stops, the response is left as it is.
Settled(r, f) ==
    /\ flows' = [flows EXCEPT ![r] = IF Threw(f) THEN At(f, "uncaught") ELSE f]
    /\ crashed' = (crashed \/ Threw(f))
    /\ lambdas' = Stored(lambdas, f.stores)
    /\ UNCHANGED << cacheDriver, cachePrefix, query >>

Settle(r, f) == Settled(r, f) /\ UNCHANGED store

\* A request arrives: the callback of http.createServer runs.
Request(r, req) ==
    /\ ~crashed
    /\ flows[r].pc = "idle"
    /\ Settle(r, Server(req))

\* The request is done and its response ended: the server is ready for the
\* next request, which starts from nothing of this one.
Finished(r) ==
    /\ ~crashed
    /\ flows[r].pc = "done"
    /\ flows' = [flows EXCEPT ![r] = Idle]
    /\ UNCHANGED << lambdas, cacheDriver, cachePrefix, crashed, query, store >>

\* The callback parseRequest gives to the body parser.
BodyParsed(r, outcome) ==
    /\ ~crashed
    /\ flows[r].pc = "bodyParser"
    /\ Settle(r, IF outcome.failed
                 THEN ErrorHandler(Answered(flows[r], "bodyParser", outcome), outcome.err)
                 ELSE Callback([Answered(flows[r], "bodyParser", outcome)
                                  EXCEPT !.args.body = outcome.value]))

RouteOf(f) == findFunction(lambdas, f.args.uri)

\* The callback of this.lambda.invoke in invoke, for a request.
OnInvoked(f, lambda, outcome) ==
    IF outcome.failed
    THEN ErrorHandler(Answered(f, "invoke", outcome), outcome.err)
    ELSE Mapped(Answered(f, "invoke", outcome), lambda, outcome.value)

Invoked(r, outcome) ==
    /\ ~crashed
    /\ flows[r].pc = "invoke"
    /\ Settle(r, OnInvoked(flows[r], RouteOf(flows[r]), outcome))

\* CacheStore.get answers: by running the fallback doInvoke and waiting for
\* it, with an error, with a stale value while it runs the fallback, or
\* with a fresh value.
GotInvokesAlways(f, lambda, outcome) ==
    IF outcome = Fallback
    THEN At(Note(f, InvokeCall(lambda, f.args)), "invoke")
    ELSE IF outcome.failed
    THEN ErrorHandler(f, outcome.err)
    ELSE Mapped(Note(f, InvokeCall(lambda, f.args)), lambda, outcome.value)

Got(f, lambda, outcome) ==
    IF outcome = Fallback
    THEN At(Note(f, InvokeCall(lambda, f.args)), "invoke")
    ELSE IF outcome.failed
    THEN ErrorHandler(f, outcome.err)
    ELSE IF IsStale(outcome)
    THEN Mapped(Note(f, InvokeCall(lambda, f.args)), lambda, outcome.value)
    ELSE Mapped(f, lambda, outcome.value)

CacheGot(r, outcome) ==
    /\ ~crashed
    /\ flows[r].pc = "get"
    /\ Settle(r, Got(Answered(flows[r], "get", outcome), RouteOf(flows[r]), outcome))

\* CacheStore.markToRefresh or unset answers.
OnCacheOp(f, outcome) ==
    IF outcome.failed
    THEN ErrorHandler(Answered(f, "cacheOp", outcome), outcome.err)
    ELSE NextHandler(Answered(f, "cacheOp", outcome),
                     Obj(One(f.hist[Len(f.hist)].name, outcome.value)))

CacheOpDone(r, outcome) ==
    /\ ~crashed
    /\ flows[r].pc = "cacheOp"
    /\ Settle(r, OnCacheOp(flows[r], outcome))

Next ==
    \E r \in Reqs :
        \/ \E req \in Requests : Request(r, req)
        \/ \E outcome \in BodyOutcomes : BodyParsed(r, outcome)
        \/ \E outcome \in BackendOutcomes : Invoked(r, outcome)
        \/ \E outcome \in CacheOutcomes : CacheGot(r, outcome)
        \/ \E outcome \in CacheOpOutcomes : CacheOpDone(r, outcome)
        \/ Finished(r)

Spec == Init /\ [][Next]_vars

\* -------------------------------------------------- properties of a request

\* The calls of one kind a request has made, in order.
Calls(f, op) == SelectSeq(f.hist, LAMBDA e : e.op = op)

HasCall(f, op) == \E i \in DOMAIN f.hist : f.hist[i].op = op

\* A cache-admin request: POST with pathname '/cache'.
CacheAdmin(req) == req.method = "POST" /\ ParseUrl(req.url).pathname = CachePathname

\* The route of the request's URI.
RequestRoute(req) == findFunction(lambdas, parseUri(ParseUrl(req.url).pathname))

\* The token the request carries: the authorization header, else the
\* token parameter, else null.
RequestParams(req) ==
    IF qs(ParseUrl(req.url).query).threw THEN EmptyMap ELSE qs(ParseUrl(req.url).query).map

RequestToken(req) ==
    IF RequestRoute(req) # null /\ RequestRoute(req).auth.kind = "object"
    THEN ResolvedToken(RequestRoute(req).auth,
                       [headers |-> req.headers, params |-> RequestParams(req)])
    ELSE GotToken([headers |-> req.headers, params |-> RequestParams(req)])

Guarded(lambda) ==
    lambda # null /\ lambda.auth.kind = "object" /\ lambda.auth.requiredRoles.set

\* The request's token verifies for the route and its role is a required one.
HasRole(req, lambda) ==
    /\ verify(RequestToken(req), lambda.auth.secret, lambda.auth.audience).ok
    /\ Field(Obj(Claims(RequestToken(req).str)), L("role")) \in lambda.auth.requiredRoles.roles

\* The request's token verifies for the route, its role is not a required one.
LacksRole(req, lambda) ==
    /\ verify(RequestToken(req), lambda.auth.secret, lambda.auth.audience).ok
    /\ Field(Obj(Claims(RequestToken(req).str)), L("role")) \notin lambda.auth.requiredRoles.roles

Succeeded(f) == f.res.ended >= 1 /\ f.res.statusCode < 400

\* The response is the error, written and ended once.
FailedWith(f, statusCode, message) ==
    /\ f.pc = "done"
    /\ f.res.ended = 1
    /\ f.res.statusCode = statusCode
    /\ Len(f.res.body) = 1
    /\ IsJson(f.res.body[1])
    /\ IsError(f.res.body[1].json)
    /\ f.res.body[1].json.error.statusCode = statusCode
    /\ f.res.body[1].json.error.message = message

\* C1: on every branch of handle the response is ended at most once and
\* written at most once, whatever the collaborators answer.
C1_EndedAtMostOnce ==
    \A r \in Reqs :
        /\ flows[r].res.ended <= 1
        /\ Len(Calls(flows[r], "end")) <= 1
        /\ Len(Calls(flows[r], "write")) <= 1
        /\ Len(flows[r].res.body) <= 1

\* C1's case: the server callback caught a synchronous exception of handle
\* (logged by the catch and by writeError) and ended the response.
C1_Witness ==
    \E r \in Reqs :
        /\ Len(Calls(flows[r], "log")) = 2
        /\ flows[r].res.ended = 1
        /\ flows[r].res.statusCode = 500

\* The request waits for a collaborator to call back.
Waiting(f) == ~crashed /\ f.pc \in {"bodyParser", "invoke", "get", "cacheOp"}

\* C2: every request given to handle ends its response once the
\* collaborators it waits for have called back: a request that waits for
\* none has ended its response (with collaborators that eventually call
\* back, every request then eventually ends).
C2_EveryRequestEnds ==
    \A r \in Reqs :
        (flows[r].pc # "idle" /\ ~Waiting(flows[r])) => flows[r].res.ended >= 1

\* The role gate on one request: a successful response, a CacheStore.get
\* and a backend invocation only with a required role; 403 'Forbidden' for
\* a verifiable token with another role.
RoleGate(f) ==
    /\ (Succeeded(f) \/ HasCall(f, "invoke") \/ HasCall(f, "get"))
       => HasRole(f.req, RequestRoute(f.req))
    /\ LacksRole(f.req, RequestRoute(f.req)) => FailedWith(f, 403, L("Forbidden"))

C4_VerifyFailure ==
    \A r \in Reqs :
        (HasCall(flows[r], "verify") /\ ~Calls(flows[r], "verify")[1].ok)
        => /\ \E message \in {L("jwt must be provided"), L("invalid signature"),
                              L("jwt audience invalid")} :
                 FailedWith(flows[r], 403, message)
           /\ IsNul(RequestToken(flows[r].req))
              => FailedWith(flows[r], 403, L("jwt must be provided"))
           /\ RequestToken(flows[r].req) = Str(ForgedToken)
              => FailedWith(flows[r], 403, L("invalid signature"))
           /\ ~HasCall(flows[r], "get")
           /\ ~HasCall(flows[r], "invoke")

\* C4's case: a forged token was verified and refused.
C4_Witness ==
    \E r \in Reqs :
        /\ HasCall(flows[r], "verify")
        /\ ~Calls(flows[r], "verify")[1].ok
        /\ RequestToken(flows[r].req) = Str(ForgedToken)
        /\ flows[r].res.ended = 1

\* C9: when the callback of handle finds no route and the request is not
\* a cache-admin request, the response is the error 404 'Not Found', and
\* no token was decoded or verified, no CacheStore operation and no
\* backend invocation happened.
C9_NotFound ==
    \A r \in Reqs :
        (/\ HasCall(flows[r], "findFunction")
         /\ RequestRoute(flows[r].req) = null
         /\ ~CacheAdmin(flows[r].req))
        => /\ FailedWith(flows[r], 404, L("Not Found"))
           /\ \A op \in {"decode", "verify", "get", "invoke", "cacheOp"} : ~HasCall(flows[r], op)

\* C9's case: a request with a parsed body for which no route exists.
C9_Witness ==
    \E r \in Reqs :
        /\ HasCall(flows[r], "findFunction")
        /\ HasCall(flows[r], "bodyParser")
        /\ RequestRoute(flows[r].req) = null
        /\ ~CacheAdmin(flows[r].req)
        /\ flows[r].res.statusCode = 404

\* The request is eligible for the cache: the store exists, the route has
\* a cache configuration, its enabled option is truthy and its key option
\* is a string.
Eligible(f, lambda) ==
    /\ cacheDriver
    /\ lambda.cache.set
    /\ Truthy(Eval(lambda.cache.enabled, f.args))
    /\ IsStr(Eval(lambda.cache.key, f.args))

\* C10: a request that reached callLambda has called CacheStore.get if
\* and only if it is eligible, then with the lookup {namespace: args.host,
\* key: cachePrefix + key} and before any invocation; otherwise it has
\* not called CacheStore.get and has called the invoker exactly once.
C10_CacheEligibility ==
    \A r \in Reqs :
        (HasCall(flows[r], "get") \/ HasCall(flows[r], "invoke"))
        => IF Eligible(flows[r], RequestRoute(flows[r].req))
           THEN /\ Len(Calls(flows[r], "get")) = 1
                /\ Calls(flows[r], "get")[1].lookup =
                      [namespace |-> flows[r].args.host,
                       key       |-> cachePrefix
                                     \o Eval(RequestRoute(flows[r].req).cache.key, flows[r].args).str]
                /\ Len(Calls(flows[r], "invoke")) <= 1
                /\ Calls(flows[r], "get") \o Calls(flows[r], "invoke") =
                      SelectSeq(flows[r].hist, LAMBDA e : e.op \in {"get", "invoke"})
           ELSE /\ ~HasCall(flows[r], "get")
                /\ Len(Calls(flows[r], "invoke")) = 1

\* C10's case: with a cache prefix configured, an eligible request has
\* called CacheStore.get, and the store has run the fallback.
C10_Witness ==
    \E r \in Reqs :
        /\ cachePrefix # << >>
        /\ HasCall(flows[r], "get")
        /\ HasCall(flows[r], "invoke")
        /\ Eligible(flows[r], RequestRoute(flows[r].req))

\* The answer a collaborator gave the request, and where in the request's
\* calls it came.
Answers(f, of) == SelectSeq(f.hist, LAMBDA e : e.op = "answer" /\ e.of = of)

HasAnswer(f, of) == \E i \in DOMAIN f.hist : f.hist[i].op = "answer" /\ f.hist[i].of = of

AnswerIndex(f, of) ==
    CHOOSE i \in DOMAIN f.hist : f.hist[i].op = "answer" /\ f.hist[i].of = of

\* Where the request made its first call of a kind.
Index(f, op) ==
    CHOOSE i \in DOMAIN f.hist : f.hist[i].op = op /\ \A j \in 1 .. i - 1 : f.hist[j].op # op

\* A backend response that is an envelope: it has a body and headers.
IsEnvelope(value) ==
    ~IsUndef(Field(value, L("body"))) /\ ~IsUndef(Field(value, L("headers")))

\* The body a backend response stands for: the envelope's, or the value.
BodyOf(value) == IF IsEnvelope(value) THEN Field(value, L("body")) ELSE value

\* A response a client takes for a success with content: a non-empty
\* string, or an envelope of one without an error status.
Ordinary(value) ==
    /\ IsStr(BodyOf(value))
    /\ BodyOf(value).str # << >>
    /\ IsEnvelope(value) \/ IsStr(value)
    /\ IsUndef(Field(value, L("statusCode")))

\* The responder was called once, without error, with this data.
RespondedWith(f, data) ==
    /\ Len(Calls(f, "responds")) = 1
    /\ Calls(f, "responds")[1].err = NoError
    /\ Calls(f, "responds")[1].data = data

\* The kinds of answer of CacheStore.get.
Fresh(outcome) == outcome # Fallback /\ ~outcome.failed /\ ~IsStale(outcome)

\* C11: for a request that called CacheStore.get: the backend is invoked
\* only after the store has answered by running the fallback (the entry is
\* absent or stale), and then once.  When the entry is fresh the backend
\* is not invoked and the responder gets the cached value; when it is
\* absent the backend is invoked once, nothing is responded before the
\* backend answers, and the responder gets its result; when it is stale
\* the responder gets the cached value and the backend is invoked once.
C11_CacheStoreContract ==
    \A r \in Reqs :
        HasCall(flows[r], "get")
        => /\ Len(Calls(flows[r], "invoke")) <= 1
           /\ HasCall(flows[r], "invoke")
              => /\ HasAnswer(flows[r], "get")
                 /\ AnswerIndex(flows[r], "get") < Index(flows[r], "invoke")
                 /\ ~Fresh(Answers(flows[r], "get")[1].outcome)
           /\ HasAnswer(flows[r], "get")
              => IF Answers(flows[r], "get")[1].outcome = Fallback
                 THEN /\ Len(Calls(flows[r], "invoke")) = 1
                      /\ HasCall(flows[r], "responds")
                         => /\ HasAnswer(flows[r], "invoke")
                            /\ AnswerIndex(flows[r], "invoke") < Index(flows[r], "responds")
                      /\ (/\ HasAnswer(flows[r], "invoke")
                          /\ ~Answers(flows[r], "invoke")[1].outcome.failed
                          /\ Ordinary(Answers(flows[r], "invoke")[1].outcome.value))
                         => RespondedWith(flows[r],
                                          BodyOf(Answers(flows[r], "invoke")[1].outcome.value))
                 ELSE IF Answers(flows[r], "get")[1].outcome.failed
                 THEN ~HasCall(flows[r], "invoke")
                 ELSE IF IsStale(Answers(flows[r], "get")[1].outcome)
                 THEN /\ Len(Calls(flows[r], "invoke")) = 1
                      /\ RespondedWith(flows[r], BodyOf(Answers(flows[r], "get")[1].outcome.value))
                 ELSE /\ ~HasCall(flows[r], "invoke")
                      /\ RespondedWith(flows[r], BodyOf(Answers(flows[r], "get")[1].outcome.value))

\* C11's case: the store answered with a stale value; the response is the
\* cached value and the backend was invoked to refresh the entry.
C11_Witness ==
    \E r \in Reqs :
        /\ HasAnswer(flows[r], "get")
        /\ Answers(flows[r], "get")[1].outcome = Stale(Str(L("cached")))
        /\ Len(Calls(flows[r], "invoke")) = 1
        /\ RespondedWith(flows[r], Str(L("cached")))
        /\ flows[r].res.ended = 1

\* C12's merge: every key of the defaults and of the client's params, the
\* client's value on the keys the client gives.
ClientWins(merged, defaults, params) ==
    /\ IsObj(merged)
    /\ DOMAIN merged.obj = DOMAIN defaults \cup DOMAIN params
    /\ \A k \in DOMAIN params : merged.obj[k] = params[k]
    /\ \A k \in DOMAIN defaults \ DOMAIN params : merged.obj[k] = defaults[k]

\* C12: the payload of every backend invocation is, for a paramsOnly
\* route, the merge of defaults.requestParams and args.params in which the
\* client's value wins; otherwise the envelope {method, headers, body,
\* params: that merge, uri} of the request's args.  The qualifier is the
\* route's version, '$LATEST' when it has none.
C12_Payload ==
    \A r \in Reqs :
        \A i \in DOMAIN flows[r].hist :
            flows[r].hist[i].op = "invoke"
            => /\ flows[r].hist[i].name = RequestRoute(flows[r].req).name
               /\ IF RequestRoute(flows[r].req).paramsOnly
                  THEN ClientWins(flows[r].hist[i].payload,
                                  RequestRoute(flows[r].req).defaults.requestParams,
                                  flows[r].args.params)
                  ELSE /\ IsObj(flows[r].hist[i].payload)
                       /\ DOMAIN flows[r].hist[i].payload.obj =
                             {L("method"), L("headers"), L("body"), L("params"), L("uri")}
                       /\ flows[r].hist[i].payload.obj[L("method")] = Str(L(flows[r].req.method))
                       /\ flows[r].hist[i].payload.obj[L("headers")] = Obj(flows[r].req.headers)
                       /\ flows[r].hist[i].payload.obj[L("body")] = flows[r].args.body
                       /\ flows[r].hist[i].payload.obj[L("uri")] = Str(flows[r].args.uri)
                       /\ ClientWins(flows[r].hist[i].payload.obj[L("params")],
                                     RequestRoute(flows[r].req).defaults.requestParams,
                                     flows[r].args.params)
               /\ flows[r].hist[i].version =
                     IF IsUndef(RequestRoute(flows[r].req).version)
                     THEN Str(L("$LATEST"))
                     ELSE RequestRoute(flows[r].req).version

\* C12's case: GET /mocked?width=10 on the paramsOnly route with defaults
\* {width: 200, height: 200} was invoked with {width: 10, height: 200}.
C12_Witness ==
    \E r \in Reqs :
        /\ HasCall(flows[r], "invoke")
        /\ RequestRoute(flows[r].req).paramsOnly
        /\ Calls(flows[r], "invoke")[1].payload =
              Obj([k \in {L("width"), L("height")} |->
                      IF k = L("width") THEN Num(10) ELSE Num(200)])
        /\ Calls(flows[r], "invoke")[1].version = Str(L("$LATEST"))

\* The value callLambda shapes for the request, when a collaborator has
\* given one: the backend's, or the cached one.
HasValue(f) ==
    \/ HasAnswer(f, "invoke") /\ ~Answers(f, "invoke")[1].outcome.failed
    \/ /\ HasAnswer(f, "get")
       /\ Answers(f, "get")[1].outcome # Fallback
       /\ ~Answers(f, "get")[1].outcome.failed

ValueOf(f) ==
    IF HasAnswer(f, "invoke")
    THEN Answers(f, "invoke")[1].outcome.value
    ELSE Answers(f, "get")[1].outcome.value

\* callLambda has produced an envelope of the value: its .map raises
\* TypeError on null.
Shaped(f) == HasValue(f) /\ ~IsNul(ValueOf(f)) /\ ~IsUndef(ValueOf(f))

\* The headers a backend response returns.
ReturnedHeaders(value) == Own(Field(value, L("headers")))

\* C13: whenever a backend response, cached or not, has been shaped and
\* handed to the responder, the headers handed over contain every key of
\* the route's defaults.responseHeaders, and on a key that the response's
\* own headers have as well, they carry the response's value.
C13_HeaderFidelity ==
    \A r \in Reqs :
        (Shaped(flows[r]) /\ HasCall(flows[r], "responds"))
        => /\ DOMAIN RequestRoute(flows[r].req).defaults.responseHeaders
                 \subseteq DOMAIN Calls(flows[r], "responds")[1].headers
           /\ \A k \in DOMAIN RequestRoute(flows[r].req).defaults.responseHeaders
                        \cap DOMAIN ReturnedHeaders(ValueOf(flows[r])) :
                 Calls(flows[r], "responds")[1].headers[k] = ReturnedHeaders(ValueOf(flows[r]))[k]

C15_PlainValueIsBody ==
    \A r \in Reqs :
        (/\ HasValue(flows[r])
         /\ ~IsObj(ValueOf(flows[r]))
         /\ HasCall(flows[r], "responds"))
        => RespondedWith(flows[r], ValueOf(flows[r]))

\* The backend's response carries an error status and a text body.
BackendError(value) ==
    /\ IsNum(Field(value, L("statusCode")))
    /\ Field(value, L("statusCode")).num >= 400
    /\ IsStr(Field(value, L("body")))

\* C16: once the backend has answered with a statusCode >= 400 and a body
\* and the request is done, the response is the error with that status
\* code whose message is the backend's body, written and ended once, and
\* the error was logged.
C16_BackendError ==
    \A r \in Reqs :
        (/\ HasValue(flows[r])
         /\ BackendError(ValueOf(flows[r]))
         /\ flows[r].pc = "done")
        => /\ FailedWith(flows[r], Field(ValueOf(flows[r]), L("statusCode")).num,
                         Field(ValueOf(flows[r]), L("body")).str)
           /\ HasCall(flows[r], "log")

\* The body the body parser gave the request.
ParsedBody(f) == Answers(f, "bodyParser")[1].outcome.value

\* The callback of handle has the parsed body of a cache-admin request.
CacheAdminParsed(f) ==
    /\ CacheAdmin(f.req)
    /\ HasAnswer(f, "bodyParser")
    /\ ~Answers(f, "bodyParser")[1].outcome.failed

\* The operation a cache-admin body names: 'markToRefresh' when omitted.
OperationOf(body) ==
    IF IsUndef(Field(body, L("operation"))) THEN Str(L("markToRefresh"))
    ELSE Field(body, L("operation"))

\* C17: for a cache-admin request on a gateway with a cache store, whose
\* body names 'markToRefresh' (also by omission) or 'unset': exactly that
\* CacheStore operation was called, once, with the fields of the body and
\* with namespace = the request's host when the body has no namespace; no
\* CacheStore.get and no backend invocation happened; and once the store
\* has answered with a result, the responder got {[operation]: result}
\* and the response is ended with status 200.
C17_CacheAdmin ==
    \A r \in Reqs :
        (/\ cacheDriver
         /\ CacheAdminParsed(flows[r])
         /\ IsObj(ParsedBody(flows[r]))
         /\ OperationOf(ParsedBody(flows[r])) \in {Str(L("markToRefresh")), Str(L("unset"))})
        => /\ Len(Calls(flows[r], "cacheOp")) = 1
           /\ Calls(flows[r], "cacheOp")[1].name = OperationOf(ParsedBody(flows[r])).str
           /\ DOMAIN Calls(flows[r], "cacheOp")[1].args =
                 DOMAIN ParsedBody(flows[r]).obj \cup {L("namespace")}
           /\ \A k \in DOMAIN ParsedBody(flows[r]).obj :
                 Calls(flows[r], "cacheOp")[1].args[k] = ParsedBody(flows[r]).obj[k]
           /\ L("namespace") \notin DOMAIN ParsedBody(flows[r]).obj
              => Calls(flows[r], "cacheOp")[1].args[L("namespace")] =
                    flows[r].req.headers[L("host")]
           /\ ~HasCall(flows[r], "get")
           /\ ~HasCall(flows[r], "invoke")
           /\ (HasAnswer(flows[r], "cacheOp") /\ ~Answers(flows[r], "cacheOp")[1].outcome.failed)
              => /\ RespondedWith(flows[r],
                                  Obj(One(OperationOf(ParsedBody(flows[r])).str,
                                          Answers(flows[r], "cacheOp")[1].outcome.value)))
                 /\ flows[r].res.ended = 1
                 /\ flows[r].res.statusCode = 200

\* C17's case: POST /cache with the body {}: markToRefresh was called
\* with {namespace: host} and the reply {markToRefresh: 1} is written.
C17_Witness ==
    \E r \in Reqs :
        /\ cacheDriver
        /\ CacheAdminParsed(flows[r])
        /\ ParsedBody(flows[r]) = Obj(EmptyMap)
        /\ HasCall(flows[r], "cacheOp")
        /\ Calls(flows[r], "cacheOp")[1].args = One(L("namespace"), Host)
        /\ RespondedWith(flows[r], Obj(One(L("markToRefresh"), Num(1))))
        /\ flows[r].res.ended = 1

\* C18: on a gateway without a cache store, a cache-admin request whose
\* body was parsed and that is done was answered with status 404, whatever
\* the route table contains.
C18_NoStoreNotFound ==
    \A r \in Reqs :
        (/\ ~cacheDriver
         /\ CacheAdminParsed(flows[r])
         /\ flows[r].pc = "done")
        => flows[r].res.statusCode = 404

\* C19: a cache-admin request whose body names an operation other than
\* 'markToRefresh' and 'unset' calls no CacheStore operation, and once
\* done it was answered with a 400-class error.
C19_UnknownOperation ==
    \A r \in Reqs :
        (/\ CacheAdminParsed(flows[r])
         /\ IsObj(ParsedBody(flows[r]))
         /\ OperationOf(ParsedBody(flows[r])) \notin {Str(L("markToRefresh")), Str(L("unset"))})
        => /\ \A op \in {"cacheOp", "get"} : ~HasCall(flows[r], op)
           /\ flows[r].pc = "done"
              => flows[r].res.statusCode \in 400 .. 499

\* C20: a request whose body failed to parse made no route lookup, no
\* authentication, no CacheStore operation and no backend invocation, and
\* once done it was answered with a 400-class error; a request of a method
\* other than POST and PUT never called the body parser, and its parsed
\* args have the body {}.
C20_BodyParseFailure ==
    \A r \in Reqs :
        /\ (HasAnswer(flows[r], "bodyParser") /\ Answers(flows[r], "bodyParser")[1].outcome.failed)
           => /\ \A op \in {"findFunction", "decode", "verify", "get", "invoke", "cacheOp"} :
                    ~HasCall(flows[r], op)
              /\ flows[r].pc = "done" => flows[r].res.statusCode \in 400 .. 499
        /\ (flows[r].pc # "idle" /\ flows[r].req.method \notin {"POST", "PUT"})
           => /\ ~HasCall(flows[r], "bodyParser")
              /\ flows[r].args # NoArgs => flows[r].args.body = Obj(EmptyMap)

\* The request was taken to a route, and is no cache-admin request.
RoutedTo(f) ==
    /\ HasCall(f, "findFunction")
    /\ RequestRoute(f.req) # null
    /\ ~CacheAdmin(f.req)

InputArgs(f) ==
    [parseRequest(NewFlow(f.req)).args EXCEPT
        !.body = IF HasAnswer(f, "bodyParser") THEN ParsedBody(f) ELSE @]

\* The request's token was verified and handleAuth's args were passed on
\* to callLambda.
PassedOn(f) ==
    /\ RoutedTo(f)
    /\ HasCall(f, "verify")
    /\ Calls(f, "verify")[1].ok
    /\ HasCall(f, "get") \/ HasCall(f, "invoke")

\* C22: the args handleAuth passes on after a successful verification are
\* the input args but for params.auth, and params.auth has exactly the
\* keys role and the allowed fields that the token's payload carries,
\* each with the payload's value.
C22_AuthFields ==
    \A r \in Reqs :
        PassedOn(flows[r])
        => /\ [flows[r].args EXCEPT !.params = InputArgs(flows[r]).params] = InputArgs(flows[r])
           /\ DOMAIN flows[r].args.params = DOMAIN InputArgs(flows[r]).params \cup {L("auth")}
           /\ \A k \in DOMAIN InputArgs(flows[r]).params \ {L("auth")} :
                 flows[r].args.params[k] = InputArgs(flows[r]).params[k]
           /\ IsObj(flows[r].args.params[L("auth")])
           /\ DOMAIN flows[r].args.params[L("auth")].obj =
                 {L("role")} \cup (RequestRoute(flows[r].req).auth.allowedFields
                                    \cap DOMAIN Claims(RequestToken(flows[r].req).str))
           /\ \A k \in DOMAIN flows[r].args.params[L("auth")].obj
                        \cap DOMAIN Claims(RequestToken(flows[r].req).str) :
                 flows[r].args.params[L("auth")].obj[k] = Claims(RequestToken(flows[r].req).str)[k]

\* C23: the token that is verified for a request is, when the route's
\* auth.token is a function, the function's result for the request's
\* params and headers; otherwise the authorization header when the request
\* has one, the token parameter when it has no such header, and null when
\* it has neither.
C23_TokenResolution ==
    \A r \in Reqs :
        HasCall(flows[r], "verify")
        => Calls(flows[r], "verify")[1].token =
              IF DOMAIN RequestRoute(flows[r].req).auth.token = {"fn"}
              THEN ApplyToken(RequestRoute(flows[r].req).auth.token.fn,
                              InputArgs(flows[r]).params, flows[r].req.headers)
              ELSE IF L("authorization") \in DOMAIN flows[r].req.headers
              THEN flows[r].req.headers[L("authorization")]
              ELSE IF L("token") \in DOMAIN InputArgs(flows[r]).params
              THEN InputArgs(flows[r]).params[L("token")]
              ELSE Nul

\* C23's case: a request with the admin token in its authorization header
\* and the public token as its token parameter, on a route without a token
\* function: the admin token was verified.
C23_Witness ==
    \E r \in Reqs :
        /\ HasCall(flows[r], "verify")
        /\ DOMAIN RequestRoute(flows[r].req).auth.token # {"fn"}
        /\ flows[r].req.headers[L("host")] = Host
        /\ L("authorization") \in DOMAIN flows[r].req.headers
        /\ flows[r].req.headers[L("authorization")] = Str(AdminToken)
        /\ L("token") \in DOMAIN InputArgs(flows[r]).params
        /\ InputArgs(flows[r]).params[L("token")] = Str(PublicToken)
        /\ Calls(flows[r], "verify")[1].token = Str(AdminToken)
        /\ Calls(flows[r], "verify")[1].ok

\* C24: a request whose method is OPTIONS or whose URL is '/favicon.ico'
\* is answered with status 200 and the empty string, ended once, and the
\* write and the end are all that happened: no body parser, router,
\* authentication, CacheStore or invoker call, no header set, nothing
\* logged.
C24_FastPath ==
    \A r \in Reqs :
        (/\ flows[r].pc # "idle"
         /\ flows[r].req.method = "OPTIONS" \/ flows[r].req.url = << "/", "favicon.ico" >>)
        => /\ flows[r].pc = "done"
           /\ flows[r].res.statusCode = 200
           /\ flows[r].res.body = << Str(<< >>) >>
           /\ flows[r].res.ended = 1
           /\ flows[r].res.headers = EmptyMap
           /\ flows[r].hist = << [op |-> "write", chunk |-> Str(<< >>)], [op |-> "end"] >>

\* C24's case: a POST of '/favicon.ico' was answered.
C24_Witness ==
    \E r \in Reqs :
        /\ flows[r].req.method = "POST"
        /\ flows[r].req.url = << "/", "favicon.ico" >>
        /\ flows[r].res.ended = 1

\* The calls a request made after a collaborator's answer.
After(f, of) == SubSeq(f.hist, AnswerIndex(f, of) + 1, Len(f.hist))

\* The responder's own calls: those that write an error.
ErrorWriting == {"responds", "setHeaders", "log", "write", "end"}

\* C25: when the invoker, CacheStore.get or a CacheStore operation has
\* failed, the request is done and answered with the failure: its message,
\* its statusCode or 500 when it carries none (and so never a 403 it does
\* not carry itself), no other body written; and after the failure the
\* request called nothing but the responder.
C25_FirstError ==
    \A r \in Reqs : \A of \in {"invoke", "get", "cacheOp"} :
        (HasAnswer(flows[r], of) /\ Answers(flows[r], of)[1].outcome # Fallback
           /\ Answers(flows[r], of)[1].outcome.failed)
        => /\ flows[r].pc = "done"
           /\ flows[r].res.ended = 1
           /\ flows[r].res.statusCode =
                  IF Answers(flows[r], of)[1].outcome.err.error.statusCode = 0
                  THEN 500
                  ELSE Answers(flows[r], of)[1].outcome.err.error.statusCode
           /\ flows[r].res.statusCode # 403
           /\ flows[r].res.body = << Stringify(Answers(flows[r], of)[1].outcome.err) >>
           /\ \A i \in DOMAIN After(flows[r], of) : After(flows[r], of)[i].op \in ErrorWriting

\* C25's case: the backend of a route that requires a role failed without
\* a statusCode for a request with that role; the answer is a 500.
C25_Witness ==
    \E r \in Reqs :
        /\ RoutedTo(flows[r])
        /\ Guarded(RequestRoute(flows[r].req))
        /\ HasAnswer(flows[r], "invoke")
        /\ Answers(flows[r], "invoke")[1].outcome.failed
        /\ Answers(flows[r], "invoke")[1].outcome.err.error.statusCode = 0
        /\ flows[r].res.statusCode = 500
        /\ flows[r].res.ended = 1

\* The response was answered with an error: a status of 400 or more.
ErrorAnswer(f) == f.res.ended >= 1 /\ f.res.statusCode >= 400

\* C26: whenever a response carries an error, every chunk of its body was
\* written, and the response ended, after the LogSink was given the error
\* the body serialises.
C26_LogFirst ==
    \A r \in Reqs :
        /\ \A i \in DOMAIN flows[r].hist :
               (/\ flows[r].hist[i].op = "write"
                /\ IsJson(flows[r].hist[i].chunk)
                /\ IsError(flows[r].hist[i].chunk.json))
               => \E j \in 1 .. i - 1 :
                      /\ flows[r].hist[j].op = "log"
                      /\ flows[r].hist[j].err = flows[r].hist[i].chunk.json
        /\ ErrorAnswer(flows[r])
           => /\ HasCall(flows[r], "log")
              /\ \A i \in DOMAIN flows[r].hist :
                     flows[r].hist[i].op \in {"write", "end"} => Index(flows[r], "log") < i

\* C26's case: a request answered with one of the errors the gateway makes
\* (403, 404 or 500), logged, its body written once.
C26_Witness ==
    \E r \in Reqs :
        /\ ErrorAnswer(flows[r])
        /\ HasCall(flows[r], "log")
        /\ flows[r].res.statusCode \in {403, 404, 500}
        /\ Len(flows[r].res.body) = 1

\* The calls a request made from its call of responds on.
FromResponds(f) == SubSeq(f.hist, Index(f, "responds"), Len(f.hist))

\* What write is to be given for a body: the decoded bytes of a string
\* when base64 is set, the body itself otherwise.
BodyToWrite(data, base64) ==
    IF Truthy(base64) /\ IsStr(data) /\ data.str # << >> THEN Buf(data.str)
    ELSE IF IsUndef(data) THEN Str(<< >>)
    ELSE data

\* What res.write is given for a body: the JSON text of an object or a
\* number, the bytes or the string otherwise.
ChunkOf(data) ==
    IF (TypeofObject(data) \/ IsNum(data)) /\ ~IsBuf(data) THEN Stringify(data) ELSE data

\* What res.write accepts: a string or a Buffer.
Writable(chunk) == IsStr(chunk) \/ IsBuf(chunk) \/ IsJson(chunk)

RespondedAsDescribed(calls, thrown) ==
    /\ Len(calls) >= 2
    /\ calls[2].op = "setHeaders"
    /\ calls[1].err # NoError
       => /\ Len(calls) = 5
          /\ calls[3] = [op |-> "log", err |-> calls[1].err]
          /\ calls[4] = [op |-> "write", chunk |-> Stringify(calls[1].err)]
          /\ calls[5] = [op |-> "end"]
    /\ calls[1].err = NoError
       => IF Writable(ChunkOf(BodyToWrite(calls[1].data, calls[1].base64)))
          THEN /\ Len(calls) >= 3
               /\ calls[3].op = "write"
               /\ calls[3].chunk = ChunkOf(BodyToWrite(calls[1].data, calls[1].base64))
          ELSE thrown = NewError("TypeError", L("First argument must be a string or Buffer"), 0)

\* C31: responds sets the headers first; given an error it writes the error
\* and nothing of the body; otherwise it writes the body, as the bytes its
\* base64 text decodes to when base64 is set and the body is a string, and
\* as it is when the body is not a string or base64 is not set (a body
\* res.write refuses, a boolean, makes write raise res.write's TypeError).
C31_Responds ==
    \A r \in Reqs :
        HasCall(flows[r], "responds") => RespondedAsDescribed(FromResponds(flows[r]), flows[r].thrown)

Range(s) == {s[i] : i \in DOMAIN s}

\* The params an invoke call sends to the backend.
ParamsSent(lambda, call) ==
    IF lambda.paramsOnly THEN call.payload.obj ELSE call.payload.obj[L("params")].obj

\* params.auth as the gateway builds it from the verified token of the
\* request.
BuiltAuth(f) ==
    Obj(AuthFields(RequestRoute(f.req).auth.allowedFields, Claims(RequestToken(f.req).str)))

\* C35: the backend is sent a params.auth only for a route with an auth
\* object and a request whose token was verified, and then the one the
\* gateway built from the token's payload; a request to a guarded route is
\* only passed on with a verified token, whatever its parameters.
C35_AuthNotClientControlled ==
    \A r \in Reqs :
        /\ (RoutedTo(flows[r]) /\ HasCall(flows[r], "invoke"))
           => \A call \in Range(Calls(flows[r], "invoke")) :
                  L("auth") \in DOMAIN ParamsSent(RequestRoute(flows[r].req), call)
                  => /\ RequestRoute(flows[r].req).auth.kind = "object"
                     /\ HasCall(flows[r], "verify")
                     /\ Calls(flows[r], "verify")[1].ok
                     /\ ParamsSent(RequestRoute(flows[r].req), call)[L("auth")] = BuiltAuth(flows[r])
        /\ (/\ RoutedTo(flows[r])
            /\ RequestRoute(flows[r].req).auth.kind # "none"
            /\ HasCall(flows[r], "get") \/ HasCall(flows[r], "invoke"))
           => HasCall(flows[r], "verify") /\ Calls(flows[r], "verify")[1].ok

\* The statusCode a backend response gives, 200 when it gives none.
StatusOf(value) == Default(Field(value, L("statusCode")), Num(200))

\* C37: a response answered for a backend envelope whose statusCode is
\* below 400 has that statusCode as its HTTP status, and 200 when the
\* envelope gives none.
C37_SuccessStatus ==
    \A r \in Reqs :
        (/\ flows[r].pc = "done"
         /\ Shaped(flows[r])
         /\ IsEnvelope(ValueOf(flows[r]))
         /\ IsNum(StatusOf(ValueOf(flows[r])))
         /\ StatusOf(ValueOf(flows[r])).num < 400)
        => flows[r].res.statusCode = StatusOf(ValueOf(flows[r])).num

\* C38: every response that was ended has the headers content-type and
\* access-control-allow-origin, and they were set before anything of its
\* body was written.
C38_HeadersAlways ==
    \A r \in Reqs :
        flows[r].res.ended >= 1
        => /\ {L("content-type"), L("access-control-allow-origin")} \subseteq DOMAIN flows[r].res.headers
           /\ HasCall(flows[r], "setHeaders")
           /\ Index(flows[r], "setHeaders") < Index(flows[r], "write")

\* C40: a POST request with pathname '/cache' whose body was parsed has
\* called neither the invoker nor CacheStore.get, whatever route matches
\* '/cache'; and when it called a CacheStore operation, no token was
\* verified for it and, the store having answered, it was answered with
\* status 200, whatever the matching route's auth requires.
C40_CacheAdminFirst ==
    \A r \in Reqs :
        CacheAdminParsed(flows[r])
        => /\ ~HasCall(flows[r], "get")
           /\ ~HasCall(flows[r], "invoke")
           /\ HasCall(flows[r], "cacheOp")
              => /\ ~HasCall(flows[r], "verify")
                 /\ (HasAnswer(flows[r], "cacheOp") /\ ~Answers(flows[r], "cacheOp")[1].outcome.failed)
                    => flows[r].pc = "done" /\ flows[r].res.statusCode = 200

\* C40's case: POST /cache without a token on a gateway whose route '/*'
\* matches '/cache', has a cache and requires the role admin; the store's
\* operation was called and answered, the response is a 200.
C40_Witness ==
    \E r \in Reqs :
        /\ CacheAdminParsed(flows[r])
        /\ Guarded(RequestRoute(flows[r].req))
        /\ RequestRoute(flows[r].req).cache.set
        /\ L("authorization") \notin DOMAIN flows[r].req.headers
        /\ HasAnswer(flows[r], "cacheOp")
        /\ flows[r].res.statusCode = 200
        /\ flows[r].res.ended = 1

\* ------------------------------------------------------- router exploration

\* Segment names of the test suite's route tables; '*' is the wildcard.
Literals == {"param2", "param3"}

\* Every sequence of at most n segments over the alphabet.
RECURSIVE SegSeqs(_, _)
SegSeqs(alphabet, n) ==
    IF n = 0 THEN {<< >>}
    ELSE LET shorter == SegSeqs(alphabet, n - 1)
         IN  shorter \cup {Append(s, << c >>) : s \in shorter, c \in alphabet}

\* Normalised URIs ('/' and '/s1/.../sn'); a client may send '*' as a segment.
URIs == {PathKey(s) : s \in SegSeqs(Literals \cup {"*"}, MaxSegs)}

\* Route keys: '/' and every pattern of literal and '*' segments.
Patterns == URIs

\* A route entry that names its own key, as the test suite's tables do
\* ('function-1', 'wildcard-2').
Entry(key) == Plain(key)

TableOf(keys) == [key \in keys |-> Entry(key)]

RECURSIVE KeySets(_)
KeySets(n) ==
    IF n = 0 THEN {{}}
    ELSE LET smaller == KeySets(n - 1)
         IN  smaller \cup {ks \cup {p} : ks \in smaller, p \in Patterns}

\* The three tables of the test suite's findFunction block.
PartialMatchKeys ==
    {P1("*"), P2("*", "param2"), P3("*", "param2", "param3"), P3("*", "*", "param3")}
FullWildcardKeys == {P1("*"), P2("*", "*"), P3("*", "*", "*")}
LiteralKeys ==
    {<< "/" >>, P1("param2"), P2("param2", "param3"), P3("param2", "param3", "param2")}

RouterTables ==
    {TableOf(ks) : ks \in KeySets(MaxRoutes) \cup {PartialMatchKeys, FullWildcardKeys, LiteralKeys}}

InitRouter ==
    /\ lambdas \in RouterTables
    /\ cacheDriver = FALSE
    /\ cachePrefix = << >>
    /\ crashed = FALSE
    /\ flows = [r \in Reqs |-> Idle]
    /\ query = [asked |-> FALSE]
    /\ store = EmptyMap

\* handle's route resolution for one URI: const lambda = this.findFunction(uri).
Route(uri) ==
    /\ ~query.asked
    /\ query' = [asked |-> TRUE, uri |-> uri, lambda |-> findFunction(lambdas, uri)]
    /\ UNCHANGED << lambdas, cacheDriver, cachePrefix, crashed, flows, store >>

NextRouter == \E uri \in URIs : Route(uri)

SpecRouter == InitRouter /\ [][NextRouter]_vars

\* ------------------------------------------------ properties of the router

Star == << "*" >>

\* The segments of a URI or of a route key.
Segments(key) == SelectSeq(Split(key, "/"), LAMBDA token : token # << >>)

SegCount(key) == Len(Segments(key))

Stars(key) == Len(SelectSeq(Segments(key), LAMBDA segment : segment = Star))

LiteralCount(key) == SegCount(key) - Stars(key)

\* The first n segments with the first k of them replaced by '*'.
Starred(segments, k, n) == [i \in 1 .. n |-> IF i <= k THEN Star ELSE segments[i]]

\* The patterns the router generates for a URI: every prefix of one
\* segment or more, with none, some or all of its leading segments
\* replaced by '*'.
Generated(uri) ==
    {PathKey(Starred(Segments(uri), k, n)) : n \in 1 .. SegCount(uri), k \in 0 .. SegCount(uri)}

\* The generated patterns that are keys of the table.
Routes(uri) == Generated(uri) \cap DOMAIN lambdas

NoStarSegment(uri) == \A i \in 1 .. SegCount(uri) : Segments(uri)[i] # Star

Reps(p, uri) ==
    {kn \in (0 .. SegCount(uri)) \X (1 .. SegCount(uri)) :
        kn[1] <= kn[2] /\ PathKey(Starred(Segments(uri), kn[1], kn[2])) = p}

\* A prefix of the URI as it is (0), a prefix that keeps a segment of the
\* URI after the replaced ones (1), a prefix replaced entirely (2).
Kind(kn) == IF kn[1] = 0 THEN 0 ELSE IF kn[1] < kn[2] THEN 1 ELSE 2

RepBetter(a, b) ==
    \/ Kind(a) < Kind(b)
    \/ /\ Kind(a) = Kind(b)
       /\ IF Kind(a) = 1
          THEN a[1] < b[1] \/ (a[1] = b[1] /\ a[2] > b[2])
          ELSE a[2] > b[2]

\* The order the router prefers generated patterns in.
Better(p, q, uri) == \E a \in Reps(p, uri) : \A b \in Reps(q, uri) : RepBetter(a, b)

Matches(p, uri) ==
    /\ SegCount(p) <= SegCount(uri)
    /\ \A i \in 1 .. SegCount(p) : Segments(p)[i] = Star \/ Segments(p)[i] = Segments(uri)[i]

\* C6: when two patterns of the table match the URI, one with more
\* literal segments and the other with more '*', the router returns an
\* entry, and not the entry of the one with more '*'.
C6_Specificity ==
    query.asked
    => \A p1, p2 \in DOMAIN lambdas :
          (/\ Matches(p1, query.uri)
           /\ Matches(p2, query.uri)
           /\ LiteralCount(p1) > LiteralCount(p2)
           /\ Stars(p2) > Stars(p1))
          => query.lambda # null /\ query.lambda # lambdas[p2]

LiteralTable == \A key \in DOMAIN lambdas : Stars(key) = 0

\* The literal segment-prefixes of the URI that are keys: '/' for the
\* root URI, the prefixes of one segment or more otherwise.
KeyPrefixes(uri) ==
    IF uri = << "/" >> THEN {<< "/" >>} \cap DOMAIN lambdas
    ELSE {PathKey(SubSeq(Segments(uri), 1, n)) : n \in 1 .. SegCount(uri)} \cap DOMAIN lambdas

Longest(keys) == CHOOSE key \in keys : \A other \in keys : SegCount(other) <= SegCount(key)

\* C7: with a table of literal patterns only, the router returns the
\* entry of the longest segment-prefix of the URI that is a key, and null
\* when no segment-prefix is a key.
C7_LongestLiteralPrefix ==
    (query.asked /\ LiteralTable)
    => query.lambda = IF KeyPrefixes(query.uri) = {} THEN null
                      ELSE lambdas[Longest(KeyPrefixes(query.uri))]

\* C7's case: two prefixes of the URI are keys, neither is the whole URI,
\* and the longer one was returned.
C7_Witness ==
    /\ query.asked
    /\ LiteralTable
    /\ Cardinality(KeyPrefixes(query.uri)) = 2
    /\ query.uri \notin DOMAIN lambdas
    /\ query.lambda = lambdas[Longest(KeyPrefixes(query.uri))]

AllStars(n) == PathKey(Starred(<< >>, n, n))

\* C8: the root URI resolves to routes['/'], else routes['/*'], else
\* null; with the partial-match table of the test suite '/x/param2'
\* resolves to '/*/param2', '/x/param2/param3' to '/*/param2/param3',
\* '/x/y/param3' to '/*/*/param3' and '/z' to '/*'; and with the
\* all-wildcard routes of lengths 1..m only, a URI of n >= 1 segments
\* resolves to the one of length min(n, m).
C8_Wildcards ==
    query.asked
    => /\ query.uri = << "/" >>
          => query.lambda = IF << "/" >> \in DOMAIN lambdas THEN lambdas[<< "/" >>]
                            ELSE IF P1("*") \in DOMAIN lambdas THEN lambdas[P1("*")]
                            ELSE null
       /\ DOMAIN lambdas = PartialMatchKeys
          => /\ SegCount(query.uri) = 1 => query.lambda = lambdas[P1("*")]
             /\ (SegCount(query.uri) = 2 /\ Segments(query.uri)[2] = << "param2" >>)
                => query.lambda = lambdas[P2("*", "param2")]
             /\ (/\ SegCount(query.uri) = 3
                 /\ Segments(query.uri)[2] = << "param2" >>
                 /\ Segments(query.uri)[3] = << "param3" >>)
                => query.lambda = lambdas[P3("*", "param2", "param3")]
             /\ (/\ SegCount(query.uri) = 3
                 /\ Segments(query.uri)[2] # << "param2" >>
                 /\ Segments(query.uri)[3] = << "param3" >>)
                => query.lambda = lambdas[P3("*", "*", "param3")]
       /\ \A m \in 1 .. MaxSegs :
             (DOMAIN lambdas = {AllStars(i) : i \in 1 .. m} /\ SegCount(query.uri) >= 1)
             => query.lambda = lambdas[AllStars(Min(SegCount(query.uri), m))]

\* C8's case: in the partial-match table '/x/y/param3' resolved to
\* '/*/*/param3'.
C8_Witness ==
    /\ query.asked
    /\ DOMAIN lambdas = PartialMatchKeys
    /\ SegCount(query.uri) = 3
    /\ Segments(query.uri)[2] # << "param2" >>
    /\ query.lambda = lambdas[P3("*", "*", "param3")]

\* ------------------------------------------------------- parser exploration

\* The longest string given to parseValue and parseUri, in characters.
MaxChars == 5

\* The most '&'-separated pairs of a query string given to qs.
MaxPairs == 3

\* Every string of at most n characters over the alphabet.
RECURSIVE CharSeqs(_, _)
CharSeqs(alphabet, n) ==
    IF n = 0 THEN {<< >>}
    ELSE LET shorter == CharSeqs(alphabet, n - 1)
         IN  shorter \cup {Append(s, c) : s \in shorter, c \in alphabet}

\* Characters of scalar values: digits, a sign, a letter that is also a
\* hexadecimal digit, and '%'.
ValueChars == {"0", "1", "2", "a", "-", "%"}

\* '2024-01-01', and '%E0%A4%A': a three-byte sequence cut short.
Date == << "2", "0", "2", "4", "-", "0", "1", "-", "0", "1" >>
CutShort == << "%", "E", "0", "%", "A", "4", "%", "A" >>

\* What the test suite gives parseValue, and strings over ValueChars.
Values ==
    {Bool(TRUE), Bool(FALSE), Nul, Undef, Num(6)}
        \cup {Str(L("true")), Str(L("false")), Str(L("null")), Str(L("undefined"))}
        \cup {Str(L("string")), Str(Date), Str(CutShort)}
        \cup {Str(s) : s \in CharSeqs(ValueChars, MaxChars) \ {<< >>}}

\* The '&'-separated tokens of the query strings explored.
QueryTokens ==
    {<< >>, << "a" >>, << "a", "=" >>, << "=", "1" >>,
     << "a", "=", "1" >>, << "a", "=", "b" >>, << "b", "=", "1" >>,
     << "a", "=", "true" >>, << "b", "=", "%", "2", "F" >>, << "a", "=", "%" >>,
     << "a", "=", "b", "=", "1" >>, << "%", "=", "2" >>}

RECURSIVE TokenSeqs(_)
TokenSeqs(n) ==
    IF n = 0 THEN {<< >>}
    ELSE LET shorter == TokenSeqs(n - 1)
         IN  shorter \cup {Append(s, token) : s \in shorter, token \in QueryTokens}

\* The query strings: up to MaxPairs tokens joined by '&'.
Queries == {Join(tokens, "&") : tokens \in TokenSeqs(MaxPairs)}

\* Paths over '/' and two other characters.
Paths == CharSeqs({"/", "a", "b"}, MaxChars)

InitParse ==
    /\ lambdas \in GatewayTables
    /\ cacheDriver = FALSE
    /\ cachePrefix = << >>
    /\ crashed = FALSE
    /\ flows = [r \in Reqs |-> Idle]
    /\ query = [asked |-> FALSE]
    /\ store = EmptyMap

Asked(of, input, output) ==
    /\ ~query.asked
    /\ query' = [asked |-> TRUE, of |-> of, input |-> input, output |-> output]
    /\ UNCHANGED << lambdas, cacheDriver, cachePrefix, crashed, flows, store >>

\* gateway.parseValue(value)
ParseValue(value) == Asked("parseValue", value, parseValue(value))

\* gateway.qs(value)
Qs(value) == Asked("qs", value, qs(value))

\* gateway.parseUri(uri), and parseUri of what it returned.
ParseUri(uri) ==
    Asked("parseUri", uri, [once |-> parseUri(uri), twice |-> parseUri(parseUri(uri))])

NextParse ==
    \/ \E value \in Values : ParseValue(value)
    \/ \E value \in Queries : Qs(value)
    \/ \E uri \in Paths : ParseUri(uri)

SpecParse == InitParse /\ [][NextParse]_vars

\* ------------------------------------------------ properties of the parsers

AskedOf(of) == query.asked /\ query.of = of

\* C27: parseValue returns a value for every input and raises nothing; a
\* string whose percent-encoding is malformed is returned as it is.
C27_ParseValueTotal ==
    AskedOf("parseValue")
    => /\ ~query.output.threw
       /\ (IsStr(query.input) /\ decodeURIComponent(query.input.str).threw)
          => query.output.value = query.input

\* A numeric string: an optional sign and one digit or more, nothing else.
Numeric(s) ==
    LET from == IF Len(s) > 0 /\ s[1] \in {"-", "+"} THEN 2 ELSE 1
    IN  from <= Len(s) /\ \A i \in from .. Len(s) : IsDigit(s[i])

\* C28: parseValue returns a number exactly when its input is a number or
\* a numeric string; a string that only starts with digits comes back as
\* the decoded string.
C28_NumberExactly ==
    AskedOf("parseValue")
    => LET numeric == \/ IsNum(query.input)
                      \/ IsStr(query.input) /\ Numeric(query.input.str)
       IN  /\ numeric => ~query.output.threw /\ IsNum(query.output.value)
           /\ (~numeric /\ ~query.output.threw) => ~IsNum(query.output.value)

\* The key and the value of a pair: what is before the first '=', and what
\* is between it and the next '=' or the end.
PairKey(token) == SubSeq(token, 1, NextSep(token, "=", 1) - 1)

PairValue(token) ==
    LET first == NextSep(token, "=", 1)
    IN  SubSeq(token, first + 1, NextSep(token, "=", first + 1) - 1)

Contributes(token) == PairKey(token) # << >> /\ PairValue(token) # << >>

\* The pairs of a query string that have a key and a value.
Contributing(q) == SelectSeq(Split(q, "&"), Contributes)

\* The last pair of the sequence with the key.
LastOf(pairs, key) ==
    pairs[CHOOSE i \in DOMAIN pairs :
              /\ PairKey(pairs[i]) = key
              /\ \A j \in i + 1 .. Len(pairs) : PairKey(pairs[j]) # key]

QsAsDescribed(q, output, pairs) ==
    /\ q = << >> => output = [threw |-> FALSE, map |-> EmptyMap]
    /\ output.threw <=> \E i \in DOMAIN pairs : parseValue(Str(PairValue(pairs[i]))).threw
    /\ ~output.threw
       => /\ DOMAIN output.map = {PairKey(pairs[i]) : i \in DOMAIN pairs}
          /\ \A key \in DOMAIN output.map :
                 output.map[key] = parseValue(Str(PairValue(LastOf(pairs, key)))).value

\* C29: qs gives the empty map for no query string; otherwise the map has
\* one entry per key of a pair with a non-empty key and a non-empty value,
\* the entry being parseValue of the value of the last such pair with that
\* key; the other pairs add nothing.  qs raises what parseValue raises.
C29_Qs == AskedOf("qs") => QsAsDescribed(query.input, query.output, Contributing(query.input))

\* C29's case: a query string with a key in two contributing pairs and a
\* pair without a value; the later value is the one kept.
C29_Witness ==
    /\ AskedOf("qs")
    /\ query.input = << "a", "=", "1", "&", "a", "&", "a", "=", "b" >>
    /\ query.output = [threw |-> FALSE, map |-> [k \in {<< "a" >>} |-> Str(<< "b" >>)]]

HasDoubleSlash(s) == \E i \in 1 .. Len(s) - 1 : s[i] = "/" /\ s[i + 1] = "/"

Normalised(s) ==
    /\ Len(s) >= 1
    /\ s[1] = "/"
    /\ ~HasDoubleSlash(s)
    /\ s[Len(s)] = "/" => s = << "/" >>

\* C30: parseUri of what parseUri returned is the same; parseUri('') and
\* parseUri('/') are '/'; what parseUri returns starts with one '/', has no
\* '//' and ends with '/' only when it is '/'.
C30_ParseUri ==
    AskedOf("parseUri")
    => /\ query.output.twice = query.output.once
       /\ query.input \in {<< >>, << "/" >>} => query.output.once = << "/" >>
       /\ Normalised(query.output.once)

\* C30's case: '//a//b' has become '/a/b', and stays so.
C30_Witness ==
    /\ AskedOf("parseUri")
    /\ query.input = << "/", "a", "/", "/", "b" >>
    /\ query.output = [once |-> << "/", "a", "/", "b" >>, twice |-> << "/", "a", "/", "b" >>]

\* ------------------------------------------------------------ construction

\* What a constructor call leaves: the error it threw, or the gateway's
\* parts.
Thrown(message) ==
    [threw |-> TRUE, message |-> L(message), logger |-> FALSE, cacheDriver |-> FALSE,
     server |-> FALSE, listening |-> FALSE]

Constructed(redisUrl) ==
    [threw |-> FALSE, message |-> << >>, logger |-> TRUE, cacheDriver |-> Truthy(redisUrl),
     server |-> TRUE, listening |-> TRUE]

constructorLogGroupFirst(config, env) ==
    LET logGroup    == Default(config.logGroup, env.LOG_GROUP)
        redisUrl    == Default(config.redisUrl, env.REDIS_URL)
        prefix      == Default(config.cachePrefix, Or(env.CACHE_PREFIX, Str(<< >>)))
    IN  IF ~Truthy(logGroup) THEN Thrown("no logGroup provided.")
        ELSE IF ~Truthy(config.lambdas) THEN Thrown("no lambdas provided.")
        ELSE IF ~IsStr(prefix) THEN Thrown("cachePrefix must be a string.")
        ELSE Constructed(redisUrl)

\* constructor(config = {}), with the process's environment.
constructor(config, env) ==
    LET logGroup    == Default(config.logGroup, env.LOG_GROUP)
        redisUrl    == Default(config.redisUrl, env.REDIS_URL)
        prefix      == Default(config.cachePrefix, Or(env.CACHE_PREFIX, Str(<< >>)))
    IN  IF ~Truthy(config.lambdas) THEN Thrown("no lambdas provided.")
        ELSE IF ~Truthy(logGroup) THEN Thrown("no logGroup provided.")
        ELSE IF ~IsStr(prefix) THEN Thrown("cachePrefix must be a string.")
        ELSE Constructed(redisUrl)

\* The configurations of the test suite's constructor block, and the
\* environment variables the constructor reads.
Configs ==
    [lambdas     : {Undef, Nul} \cup {[table |-> t] : t \in GatewayTables},
     logGroup    : {Undef, Str(L("spec")), Str(<< >>)},
     redisUrl    : {Undef, Str(L("redis://localhost:6380"))},
     cachePrefix : {Undef, Nul, Num(1), Str(<< >>), Str(L("cachePrefix_"))}]

Environments ==
    [LOG_GROUP    : {Undef, Str(L("envGroup"))},
     REDIS_URL    : {Undef, Str(L("redis://env"))},
     CACHE_PREFIX : {Undef, Str(L("env_"))}]

\* Before new Gateway(config): no gateway.
InitConstruct ==
    /\ lambdas = EmptyMap
    /\ cacheDriver = FALSE
    /\ cachePrefix = << >>
    /\ crashed = FALSE
    /\ flows = [r \in Reqs |-> Idle]
    /\ query = [asked |-> FALSE]
    /\ store = EmptyMap

\* new Gateway(config)
Construct(config, env) ==
    /\ ~query.asked
    /\ query' = [asked |-> TRUE, of |-> "constructor",
                 input |-> [config |-> config, env |-> env],
                 output |-> constructor(config, env)]
    /\ IF constructor(config, env).threw
       THEN UNCHANGED << lambdas, cacheDriver, cachePrefix >>
       ELSE /\ lambdas' = config.lambdas.table
            /\ cacheDriver' = constructor(config, env).cacheDriver
            /\ cachePrefix' = Default(config.cachePrefix, Or(env.CACHE_PREFIX, Str(<< >>))).str
    /\ UNCHANGED << crashed, flows, store >>

NextConstruct == \E config \in Configs, env \in Environments : Construct(config, env)

SpecConstruct == InitConstruct /\ [][NextConstruct]_vars

\* ---------------------------------------------- properties of construction

\* A setting as given: by the configuration, or else by the environment.
Given(input, name, variable) ==
    IF IsUndef(input.config[name]) THEN input.env[variable] ELSE input.config[name]

NothingCreated(output) ==
    ~output.logger /\ ~output.cacheDriver /\ ~output.server /\ ~output.listening

ConstructedAsDescribed(input, output) ==
    /\ ~Truthy(input.config.lambdas)
       => output.threw /\ output.message = L("no lambdas provided.")
    /\ (Truthy(input.config.lambdas) /\ ~Truthy(Given(input, "logGroup", "LOG_GROUP")))
       => output.threw /\ output.message = L("no logGroup provided.")
    /\ (/\ Truthy(input.config.lambdas)
        /\ Truthy(Given(input, "logGroup", "LOG_GROUP"))
        /\ ~IsUndef(input.config.cachePrefix)
        /\ ~IsStr(input.config.cachePrefix))
       => output.threw /\ output.message = L("cachePrefix must be a string.")
    /\ output.threw => NothingCreated(output)
    /\ (~output.threw /\ IsUndef(Given(input, "redisUrl", "REDIS_URL")))
       => ~output.cacheDriver /\ output.logger /\ output.server /\ output.listening

\* C32: a gateway constructed without lambdas fails with 'no lambdas
\* provided.'; with lambdas and no logGroup (in the configuration or the
\* environment) with 'no logGroup provided.'; with both and a cachePrefix
\* that is not a string with 'cachePrefix must be a string.'; a failed
\* construction has made no logger, no cache store and no server, and
\* nothing listens; without a redisUrl the cache store is null.
C32_Startup == AskedOf("constructor") => ConstructedAsDescribed(query.input, query.output)

\* C32's case: a configuration without lambdas, without logGroup and with a
\* null cachePrefix: the lambdas are what is reported missing.
C32_Witness ==
    /\ AskedOf("constructor")
    /\ IsUndef(query.input.config.lambdas)
    /\ IsUndef(Given(query.input, "logGroup", "LOG_GROUP"))
    /\ IsNul(query.input.config.cachePrefix)
    /\ query.output = Thrown("no lambdas provided.")

\* ------------------------------------------------------------ the CacheStore

\* The CacheStore as the gateway uses it: get gives the entry of the lookup
\* or, when there is none, runs the fallback and stores what it gives;
\* unset removes the entries of the namespace that its keys name.

\* this.cacheDriver.get({namespace, key}, doInvoke)
StoreGet(entries, lookup) ==
    IF lookup \in DOMAIN entries THEN Gave(entries[lookup]) ELSE Fallback

\* What doInvoke gave is stored under the lookup.
StoreFilled(entries, lookup, value) == Assign(entries, One(lookup, value))

\* The keys a cache operation names: the strings of its keys array.
KeysOf(args) ==
    IF L("keys") \in DOMAIN args /\ IsArr(args[L("keys")])
    THEN {args[L("keys")].arr[i].str : i \in DOMAIN args[L("keys")].arr}
    ELSE {}

\* this.cacheDriver.unset({namespace, keys, ...})
StoreUnset(entries, args) ==
    [lookup \in {l \in DOMAIN entries :
                    ~(l.namespace = args[L("namespace")] /\ l.key \in KeysOf(args))}
        |-> entries[lookup]]

\* Requests to a cached route and to the cache admin.
CacheRequests ==
    [method : {"GET", "POST"}, url : {P1("cached"), CachePathname},
     headers : {One(L("host"), Host)}]

\* POST /cache bodies: unset of the key of '/cached', and of another key.
CacheBodies ==
    {Gave(Obj(Assign(One(L("operation"), Unset),
                     One(L("keys"), Arr(<< Str(P1("cached")) >>))))),
     Gave(Obj(Assign(One(L("operation"), Unset),
                     One(L("keys"), Arr(<< Str(P1("other")) >>)))))}

InitCache ==
    /\ lambdas = [key \in FixtureKeys |-> FixtureRoute(key)]
    /\ cacheDriver = TRUE
    /\ cachePrefix \in {<< >>, L("cachePrefix_")}
    /\ crashed = FALSE
    /\ flows = [r \in Reqs |-> Idle]
    /\ query = [asked |-> FALSE]
    /\ store = EmptyMap

LastCall(f) == f.hist[Len(f.hist)]

\* CacheStore.get answers from its entries.
CacheLookedUp(r) ==
    /\ ~crashed
    /\ flows[r].pc = "get"
    /\ Settle(r, Got(Answered(flows[r], "get", StoreGet(store, LastCall(flows[r]).lookup)),
                     RouteOf(flows[r]),
                     StoreGet(store, LastCall(flows[r]).lookup)))

\* The invoker answers; when it ran as the fallback of CacheStore.get, what
\* it gave is stored.
Filled(r, outcome) ==
    /\ ~crashed
    /\ flows[r].pc = "invoke"
    /\ Settled(r, OnInvoked(flows[r], RouteOf(flows[r]), outcome))
    /\ store' = IF HasCall(flows[r], "get") /\ ~outcome.failed
                THEN StoreFilled(store, Calls(flows[r], "get")[1].lookup, outcome.value)
                ELSE store

\* CacheStore.unset answers with the number of entries it removed.
CacheOperated(r) ==
    /\ ~crashed
    /\ flows[r].pc = "cacheOp"
    /\ LastCall(flows[r]).name = Unset.str
    /\ Settled(r, OnCacheOp(flows[r],
                            Gave(Num(Cardinality(DOMAIN store
                                                 \ DOMAIN StoreUnset(store, LastCall(flows[r]).args))))))
    /\ store' = StoreUnset(store, LastCall(flows[r]).args)

NextCache ==
    \E r \in Reqs :
        \/ \E req \in CacheRequests : Request(r, req)
        \/ \E outcome \in CacheBodies : BodyParsed(r, outcome)
        \/ CacheLookedUp(r)
        \/ \E outcome \in BackendOutcomes : Filled(r, outcome)
        \/ CacheOperated(r)
        \/ Finished(r)

SpecCache == InitCache /\ [][NextCache]_vars

\* --------------------------------------------- properties of the CacheStore

\* The entry a cache-eligible request from the namespace looks up when its
\* computed key is the key.
LookupOf(namespace, key) == [namespace |-> namespace, key |-> cachePrefix \o key]

\* C36: when a cache-admin request has completed an unset of keys for its
\* host, the store has no entry left that a cache-eligible request of that
\* host with one of these keys as its computed key looks up; such a request
\* finds no entry and invokes the backend.
C36_UnsetReaches ==
    [][\A r \in Reqs :
           (/\ flows[r].pc = "cacheOp"
            /\ flows'[r].pc = "done"
            /\ LastCall(flows[r]).name = Unset.str)
           => \A key \in KeysOf(LastCall(flows[r]).args) :
                  LookupOf(LastCall(flows[r]).args[L("namespace")], key) \notin DOMAIN store']_vars

\* C39: no request is answered by CacheStore.get with a stored backend
\* error: the value the store gives is never an envelope whose statusCode
\* is 400 or more.
C39_NoStoredError ==
    \A r \in Reqs :
        (/\ HasAnswer(flows[r], "get")
         /\ Answers(flows[r], "get")[1].outcome # Fallback
         /\ ~Answers(flows[r], "get")[1].outcome.failed)
        => ~(/\ IsNum(StatusOf(Answers(flows[r], "get")[1].outcome.value))
             /\ StatusOf(Answers(flows[r], "get")[1].outcome.value).num >= 400)

\* ------------------------------------------ gateway-level auth (src/index.js)

\* The routes of src/index.js are keyed by the root of the pathname; a
\* route's auth is absent, true, or {roles}.
RootRoute(auth) == [name |-> L("functionName"), auth |-> auth]

RootRoutes ==
    [root \in {<< "/" >>, P1("withAuthOnly"), P1("withAdminRoleOnly"), P1("withAdminOrPublicRole")} |->
        IF root = P1("withAuthOnly") THEN RootRoute([kind |-> "true"])
        ELSE IF root = P1("withAdminRoleOnly")
        THEN RootRoute([kind |-> "roles", roles |-> {Str(L("admin"))}])
        ELSE IF root = P1("withAdminOrPublicRole")
        THEN RootRoute([kind |-> "roles", roles |-> {Str(L("admin")), Str(L("public"))}])
        ELSE RootRoute([kind |-> "none"])]

\* The route tables: the test suite's, and with a '*' route for any role.
RootTables ==
    {RootRoutes,
     Assign(RootRoutes, One(<< "*" >>, RootRoute([kind |-> "roles", roles |-> {Str(L("public"))}])))}

\* this.auth: null, the test suite's {getSecret: 'mySecret'}, with the
\* allowedFields the suite sets for handleAuth, and with a getToken function.
NoFields == [set |-> FALSE]
GatewayAuths ==
    {[set |-> FALSE],
     [set |-> TRUE, getToken |-> "none", getSecret |-> "literal", allowedFields |-> NoFields],
     [set |-> TRUE, getToken |-> "none", getSecret |-> "literal",
      allowedFields |-> [set |-> TRUE, fields |-> {L("namespace"), L("user")}]],
     [set |-> TRUE, getToken |-> "none", getSecret |-> "function",
      allowedFields |-> [set |-> TRUE, fields |-> {L("namespace"), L("user")}]],
     [set |-> TRUE, getToken |-> "function", getSecret |-> "literal",
      allowedFields |-> [set |-> TRUE, fields |-> {L("namespace"), L("user")}]]}

\* `context` is declared nowhere in src/index.js: evaluating it raises.
ContextError == NewError("ReferenceError", L("context is not defined"), 0)

\* What handleAuth gives: an exception raised in the call, or the
\* observable's error or value.
Raised(err) == [threw |-> TRUE, ok |-> FALSE, err |-> err]
Errored(err) == [threw |-> FALSE, ok |-> FALSE, err |-> err]
Of(args) == [threw |-> FALSE, ok |-> TRUE, args |-> args]

\* The .map on jwt.verify: this.auth.allowedFields.concat(['role']) ...
VerifiedFields(auth, args, payload) ==
    IF ~auth.allowedFields.set
    THEN Errored(TypeError("Cannot read property 'concat' of undefined"))
    ELSE Of(WithAuth(args, AuthFields(auth.allowedFields.fields, payload)))

\* handleAuth, from the authorization it found on.
Authorized(auth, args, authorization) ==
    IF Truthy(authorization)
    THEN IF auth.getSecret = "function" THEN Raised(ContextError)
         ELSE IF verify(authorization, MySecret, Undef).ok
         THEN VerifiedFields(auth, args, verify(authorization, MySecret, Undef).payload)
         ELSE Errored(verify(authorization, MySecret, Undef).err)
    ELSE Of(WithAuth(args, One(L("role"), Str(L("public")))))

\* handleAuth(args) of src/index.js
gatewayHandleAuth(auth, args) ==
    IF auth.set
    THEN IF auth.getToken = "function" THEN Raised(ContextError)
         ELSE Authorized(auth, args, GotToken(args))
    ELSE Of(args)

\* this.lambdas[root] || this.lambdas['*']
RootLambda(table, root) ==
    IF root \in DOMAIN table THEN table[root]
    ELSE IF << "*" >> \in DOMAIN table THEN table[<< "*" >>] ELSE null

\* (requiresAuth && !auth) || (requiredRoles && !requiredRoles.includes(auth.role))
Forbidden(lambda, auth) ==
    /\ lambda # null
    /\ lambda.auth.kind # "none"
    /\ \/ ~Truthy(auth)
       \/ lambda.auth.kind = "roles" /\ Field(auth, L("role")) \notin lambda.auth.roles

\* The .do on handleAuth's observable.
DoChecked(lambda, authed) ==
    IF authed.ok /\ Forbidden(lambda, Field(Obj(authed.args.params), L("auth")))
    THEN Errored(makeError(403, Str(L("Forbidden"))))
    ELSE authed

\* What the request came to: the call it made (callLambda, a CacheStore
\* operation, or none) or the status and message it was answered with, and
\* the params.auth handleAuth gave it.
Outcome(call, status, message, authed) ==
    [threw |-> FALSE, call |-> call, status |-> status, message |-> message,
     auth |-> IF authed.ok THEN Field(Obj(authed.args.params), L("auth")) ELSE Undef]

\* operation.subscribe(...) for an operation that is still handleAuth's.
Subscribing(authed, checked) ==
    IF checked.ok
    THEN Outcome("none", 200, << >>, authed)
    ELSE Outcome("none", IF checked.err.error.statusCode = 0 THEN 500 ELSE checked.err.error.statusCode,
                 checked.err.error.message, authed)

\* The callback of parseRequest in handle from handleAuth's observable on.
Operated(lambda, driver, args, authed, checked) ==
    IF args.method = "POST" /\ args.url.pathname = CachePathname
    THEN IF driver /\ Default(Field(args.body, L("operation")), MarkToRefresh) \in {MarkToRefresh, Unset}
         THEN Outcome("cacheOp", 200, << >>, authed)
         ELSE Subscribing(authed, checked)
    ELSE IF lambda # null
    THEN IF checked.ok THEN Outcome("callLambda", 200, << >>, authed) ELSE Subscribing(authed, checked)
    ELSE Outcome("none", 404, L("Not Found"), authed)

\* handle(req, res) of src/index.js from the callback of parseRequest on;
\* an exception raised in the callback reaches the server's try/catch for
\* the methods whose callback runs within handle, and nothing otherwise.
gatewayHandle(auth, table, driver, args) ==
    IF gatewayHandleAuth(auth, args).threw
    THEN [threw |-> TRUE, call |-> "none", message |-> gatewayHandleAuth(auth, args).err.error.message,
          status |-> IF args.method \in {"POST", "PUT"} THEN 0 ELSE 500, auth |-> Undef]
    ELSE Operated(RootLambda(table, args.root), driver, args, gatewayHandleAuth(auth, args),
                  DoChecked(RootLambda(table, args.root), gatewayHandleAuth(auth, args)))

\* The args parseRequest hands to the callback.
RootArgs ==
    [method : {"GET", "POST"},
     root : DOMAIN RootRoutes \cup {P1("cache"), P1("other")},
     headers : {One(L("host"), Host),
                Assign(One(L("host"), Host), One(L("authorization"), Str(AdminToken))),
                Assign(One(L("host"), Host), One(L("authorization"), Str(ForgedToken)))},
     params : {EmptyMap, One(L("token"), Str(PublicToken))},
     body : {Obj(EmptyMap)}]

WithPathname(args) == Assign(args, [url |-> [pathname |-> args.root]])

InitIndex ==
    /\ lambdas = EmptyMap
    /\ cacheDriver \in BOOLEAN
    /\ cachePrefix = << >>
    /\ crashed = FALSE
    /\ flows = [r \in Reqs |-> Idle]
    /\ query = [asked |-> FALSE]
    /\ store = EmptyMap

\* gateway.handle(req, res) for a gateway of src/index.js
GatewayHandle(auth, table, args) ==
    Asked("handle", [auth |-> auth, table |-> table, args |-> args],
          gatewayHandle(auth, table, cacheDriver, WithPathname(args)))

NextIndex ==
    \E auth \in GatewayAuths, table \in RootTables, args \in RootArgs :
        GatewayHandle(auth, table, args)

SpecIndex == InitIndex /\ [][NextIndex]_vars

\* ------------------------------------- properties of the gateway-level auth

NoToken(args) == ~Truthy(GotToken(args))

Public == Obj(One(L("role"), Str(L("public"))))

\* C34: in src/index.js, a request without a token to a gateway with an
\* auth configuration proceeds with params.auth = {role: 'public'}; when
\* the resolved lambda requires auth and the request has no params.auth, or
\* the lambda's roles do not include params.auth.role, the response is 403
\* 'Forbidden' and callLambda is not called; callLambda is called when the
\* role is in the lambda's roles.
C34_GatewayAuth ==
    AskedOf("handle") =>
        /\ (query.input.auth.set /\ NoToken(query.input.args))
           => (~query.output.threw /\ query.output.auth = Public)
        /\ Forbidden(RootLambda(query.input.table, query.input.args.root), query.output.auth)
           => (/\ query.output.status = 403
               /\ query.output.message = L("Forbidden")
               /\ query.output.call # "callLambda")
        /\ (/\ RootLambda(query.input.table, query.input.args.root) # null
            /\ RootLambda(query.input.table, query.input.args.root).auth.kind = "roles"
            /\ Field(query.output.auth, L("role"))
                   \in RootLambda(query.input.table, query.input.args.root).auth.roles)
           => query.output.call = "callLambda"

====
